---- MODULE Spec2Model ----
(***************************************************************************)
(* State-machine model of the SNRv5 irrigation controller's concurrency    *)
(* core: the in-memory session table (SessionManager), the persisted edit  *)
(* lock set (LockManager) and the relay command queue with its worker and  *)
(* one-shot timer tasks (OutputPointManager).                              *)
(***************************************************************************)
EXTENDS Integers, Sequences, FiniteSets, TLC

(***************************************************************************)
(* Program constants                                                       *)
(***************************************************************************)
SESSION_TIMEOUT_MS == 15 * 60 * 1000
SESSION_CLEANUP_INTERVAL_MS == 1 * 60 * 1000
LOCK_TIMEOUT_MS == 30 * 60 * 1000
LOCK_CLEANUP_INTERVAL_MS == 5 * 60 * 1000
\* capacity given to xQueueCreate
QueueCapacity == 10
\* width of the shift-register image `uint8_t relayState`
RelayStateBits == 8

(***************************************************************************)
(* Bounds of the model                                                     *)
(***************************************************************************)
\* millis() advances in steps of TickMs: at most MaxTicks times where the
\* SessionManager is exercised, MaxLockTicks times where the LockManager is
TickMs == SESSION_TIMEOUT_MS
MaxTicks == 3
MaxLockTicks == 4
\* session ids generateSessionId can hand out, in std::map key order
TokenOrder == <<"tokA", "tokB">>
Tokens == {TokenOrder[i] : i \in 1..Len(TokenOrder)}
\* accounts a login can come from, and one set of fields createSession rejects
Accounts == {[username |-> "alice", role |-> "OWNER"]}
BadAccounts == {[username |-> "", role |-> "OWNER"],
                [username |-> "alice", role |-> "UNKNOWN"]}
\* transport identities (remote IP, User-Agent) requests come from; the first
\* two concatenate to the same string.  Logins come from LoginClients.
Clients == {[ip |-> "10.0.0.1", ua |-> "1A"],
            [ip |-> "10.0.0.11", ua |-> "A"],
            [ip |-> "10.0.0.2", ua |-> "A"]}
LoginClients == {[ip |-> "10.0.0.1", ua |-> "1A"]}
\* the resources locks are asked for, each with the lock type its callers use
LockTargets == {[resourceId |-> "schedule_a", lockType |-> "EDITING_SCHEDULE"],
                [resourceId |-> "template_t", lockType |-> "EDITING_TEMPLATE"],
                [resourceId |-> "", lockType |-> "EDITING_SCHEDULE"]}
Resources == {t.resourceId : t \in LockTargets}
InvalidLockType == "INVALID"

\* relays configured; commands a client submits (MaxSubmits) or that are
\* counted of a client that never stops (MaxFloodSubmits); timer tasks created
\* in a run; clock readings while acquireLock calls interleave
RelayCount == 2
MaxSubmits == 3
MaxFloodSubmits == 12
MaxTimers == 2
MaxRaceTicks == 1
\* where the session sweep is exercised millis() also advances in steps of
\* ShortTickMs, at most MaxShortTicks times after each step of TickMs
ShortTickMs == SESSION_CLEANUP_INTERVAL_MS \div 2
MaxShortTicks == 2
MaxSweepTicks == 1
\* clock readings one millisecond apart after each step of ShortTickMs
MaxMsTicks == 1
\* minutes of the day autopilot windows start and end at, one of them out of
\* range; the dosing fields they carry; the windows a Schedule object is let
\* grow to
AutopilotTimes == {0, 60, 100, 120, 160, 180, 1439}
OutOfRangeTimes == {1440}
Dosings == {[doseVolume |-> 0, doseDuration |-> 0, settlingTime |-> 0],
            [doseVolume |-> 0, doseDuration |-> 0, settlingTime |-> 5],
            [doseVolume |-> 10, doseDuration |-> 30, settlingTime |-> 0]}
MaxWindows == 2
\* the volume events a schedule close to the event limit already holds
Prefilled == 98
\* clock readings while schedule requests are handled; schedule files the
\* store holds when a client creates one more
MaxApiTicks == 1
MaxStored == 1
\* the duration the test task of main.cpp asks for
TimedMs == 2000

VARIABLES
    clock,                \* millis()
    activeSessions,       \* SessionManager::activeSessions: id -> SessionData
    sessLastCleanupTime,  \* SessionManager::lastCleanupTime
    lockFile,             \* content of the lock file: sequence of JSON lock objects
    lockLastCleanupTime,  \* LockManager::lastCleanupTime
    issued,               \* session ids generated so far (fresh ids are never repeated)
    ret                   \* the last call that changed anything: its name, arguments and result

lockCore == <<clock, activeSessions, sessLastCleanupTime, lockFile,
              lockLastCleanupTime, issued>>
lockVars == <<lockCore, ret>>

\* OutputPointManager: the configuration begin() was given, the shift-register
\* image, the level of GPIO 0, the command queue, the timer handle of each relay,
\* the timer tasks alive, the next task to be created, where the command
\* processor task stands, and how many commands clients have submitted
VARIABLES ioConfig, relayState, pinLevel, commandQueue, activeTimerTasks,
          timerTasks, nextTask, worker, submits

outVars == <<ioConfig, relayState, pinLevel, commandQueue, activeTimerTasks,
             timerTasks, nextTask, worker, submits>>

\* request handler tasks inside acquireLock: what each has loaded and decided
VARIABLES acq

\* the loop task inside cleanupExpiredLocks: what it has loaded and decided
VARIABLES sweep

raceVars == <<acq, sweep>>

\* ScheduleManager: _scheduleIndex, the schedule files of _scheduleDir, and
\* the response the last schedule request handler of ApiRoutes sent
VARIABLES scheduleIndex, scheduleFiles, resp

apiVars == <<scheduleIndex, scheduleFiles, resp>>

\* a Schedule object a caller of validateAndAddEvent builds, and the last call's outcome
VARIABLES draft, added

draftVars == <<draft, added>>

schedVars == <<apiVars, draftVars>>

vars == <<lockVars, outVars, raceVars, schedVars>>

(***************************************************************************)
(* Helpers                                                                 *)
(***************************************************************************)
\* unsigned long is 32 bits wide and TLC's integers end at 2^31 - 1, so an
\* unsigned long difference is kept as its 16-bit halves <<high, low>>: the
\* value is high * 2^16 + low.  Clock readings stay below 2^31.
\* 2^32 - d as halves, for 0 < d < 2^31
WrappedHalves(d) ==
    IF d % (2 ^ 16) = 0
    THEN <<(2 ^ 16) - (d \div (2 ^ 16)), 0>>
    ELSE <<(2 ^ 16) - 1 - (d \div (2 ^ 16)), (2 ^ 16) - (d % (2 ^ 16))>>

\* unsigned long subtraction a - b, reduced modulo 2^32
USub(a, b) ==
    IF a >= b THEN <<(a - b) \div (2 ^ 16), (a - b) % (2 ^ 16)>>
    ELSE WrappedHalves(b - a)

\* the unsigned long of halves h is greater than limit
HalvesAbove(h, limit) ==
    \/ h[1] > limit \div (2 ^ 16)
    \/ h[1] = limit \div (2 ^ 16) /\ h[2] > limit % (2 ^ 16)

\* (unsigned long)(a - b) > limit
UGreater(a, b, limit) == HalvesAbove(USub(a, b), limit)

\* (unsigned long)(a - b) >= limit
UAtLeast(a, b, limit) == USub(a, b) = USub(limit, 0) \/ UGreater(a, b, limit)

Range(s) == {s[i] : i \in 1..Len(s)}

\* the storage layer's answer to one load-modify-save cycle:
\*   load: the lock file opens and parses
\*   save: "ok", "open" (open for writing fails, file untouched),
\*         "write" (file truncated by the open, then nothing written)
FsOk == [load |-> TRUE, save |-> "ok"]
FsOutcomes == {FsOk,
               [load |-> FALSE, save |-> "ok"],
               [load |-> TRUE, save |-> "open"],
               [load |-> TRUE, save |-> "write"]}

(***************************************************************************)
(* Arduino String: the member functions the code calls, with the indexes   *)
(* of the code (the first character has index 0)                           *)
(***************************************************************************)
charAt(s, index) == SubSeq(s, index + 1, index + 1)

\* s.indexOf(text, fromIndex): where text first starts at or after fromIndex, -1 when nowhere
RECURSIVE indexOf(_, _, _)
indexOf(s, text, fromIndex) ==
    IF fromIndex >= Len(s) \/ fromIndex + Len(text) > Len(s) THEN -1
    ELSE IF SubSeq(s, fromIndex + 1, fromIndex + Len(text)) = text THEN fromIndex
    ELSE indexOf(s, text, fromIndex + 1)

\* an index past the end of a string counts as its length
ClampIndex(index, length) == IF index > length THEN length ELSE index

\* s.substring(left, right): the characters of index left to right - 1, with
\* the two indexes exchanged when left > right and right cut to the length
substring(s, left, right) ==
    IF left > right
    THEN SubSeq(s, ClampIndex(right, Len(s)) + 1, ClampIndex(left, Len(s)))
    ELSE SubSeq(s, ClampIndex(left, Len(s)) + 1, ClampIndex(right, Len(s)))

\* the characters isspace accepts that a string here can hold
WhiteSpace == {" ", "\t", "\n", "\f", "\r"}

\* s.trim(): s without the white space at its two ends
RECURSIVE trim(_)
trim(s) ==
    IF s = "" THEN s
    ELSE IF charAt(s, 0) \in WhiteSpace THEN trim(substring(s, 1, Len(s)))
    ELSE IF charAt(s, Len(s) - 1) \in WhiteSpace THEN trim(substring(s, 0, Len(s) - 1))
    ELSE s

UpperCaseLetters == "ABCDEFGHIJKLMNOPQRSTUVWXYZ"
LowerCaseLetters == "abcdefghijklmnopqrstuvwxyz"

UpperCase == {charAt(UpperCaseLetters, i) : i \in 0..(Len(UpperCaseLetters) - 1)}

\* tolower of one character
tolower(c) ==
    IF c \in UpperCase THEN charAt(LowerCaseLetters, indexOf(UpperCaseLetters, c, 0)) ELSE c

\* s.equalsIgnoreCase(t): the same length and, place by place, the same
\* character after tolower (characters that are equal need no tolower)
equalsIgnoreCase(s, t) ==
    \/ s = t
    \/ /\ Len(s) = Len(t)
       /\ \A i \in 0..(Len(s) - 1) :
            \/ charAt(s, i) = charAt(t, i)
            \/ tolower(charAt(s, i)) = tolower(charAt(t, i))

(***************************************************************************)
(* FileLock.h                                                              *)
(***************************************************************************)
lockTypeToString(t) ==
    CASE t = "EDITING_SCHEDULE" -> "editing_schedule"
      [] t = "EDITING_TEMPLATE" -> "editing_template"
      [] OTHER -> "unknown"

stringToLockType(typeStr) ==
    IF equalsIgnoreCase(typeStr, "editing_schedule") THEN "EDITING_SCHEDULE"
    ELSE IF equalsIgnoreCase(typeStr, "editing_template") THEN "EDITING_TEMPLATE"
    ELSE InvalidLockType

FileLockIsValid(l) ==
    /\ l.resourceId # ""
    /\ l.lockType # InvalidLockType
    /\ l.sessionId # ""
    /\ l.timestamp > 0

(***************************************************************************)
(* SessionData.h                                                           *)
(***************************************************************************)
DefaultSessionData ==
    [sessionId |-> "", username |-> "", userRole |-> "UNKNOWN",
     creationTime |-> 0, lastHeartbeat |-> 0, fingerprint |-> ""]

SessionIsValid(s) ==
    /\ s.sessionId # ""
    /\ s.username # ""
    /\ s.userRole # "UNKNOWN"
    /\ s.creationTime > 0
    /\ s.lastHeartbeat > 0

(***************************************************************************)
(* LockManager.cpp                                                         *)
(***************************************************************************)
\* stringToLockType of the strings lockTypeToString writes, computed once
LockTypeWritten ==
    [typeStr \in {lockTypeToString(t) : t \in {"EDITING_SCHEDULE", "EDITING_TEMPLATE",
                                                 InvalidLockType}} |->
       stringToLockType(typeStr)]

LockTypeOf(typeStr, written) ==
    IF typeStr \in DOMAIN written THEN written[typeStr] ELSE stringToLockType(typeStr)

\* JSON object -> FileLock, as the loop of loadAllLocks reads it
LockFromJson(o) ==
    [resourceId |-> o.resourceId, lockType |-> LockTypeOf(o.lockType, LockTypeWritten),
     sessionId |-> o.sessionId, username |-> o.username, timestamp |-> o.timestamp]

\* FileLock -> JSON object, as the loop of saveAllLocks writes it
LockToJson(l) ==
    [resourceId |-> l.resourceId, lockType |-> lockTypeToString(l.lockType),
     sessionId |-> l.sessionId, username |-> l.username, timestamp |-> l.timestamp]

MapSeq(s, Op(_)) == [i \in 1..Len(s) |-> Op(s[i])]

\* the vector loadAllLocks fills when the file opens and parses
loadAllLocks(file) ==
    SelectSeq(MapSeq(file, LockFromJson), FileLockIsValid)

\* the file after saveAllLocks(locks) under save outcome `mode`
saveAllLocks(file, locks, mode) ==
    CASE mode = "ok" -> MapSeq(SelectSeq(locks, FileLockIsValid), LockToJson)
      [] mode = "open" -> file
      [] OTHER -> << >>

\* index of the first lock on resourceId in `locks`, 0 when there is none
FirstLockOn(locks, resourceId) ==
    IF \E i \in 1..Len(locks) : locks[i].resourceId = resourceId
    THEN CHOOSE i \in 1..Len(locks) :
            /\ locks[i].resourceId = resourceId
            /\ \A j \in 1..(i - 1) : locks[j].resourceId # resourceId
    ELSE 0

\* acquireLock without the check for a lock held by another session
AcquirePrepareNoConflictCheck(file, resourceId, lockType, session, now, fs) ==
    IF resourceId = "" \/ ~SessionIsValid(session) THEN [go |-> FALSE, locks |-> << >>]
    ELSE IF ~fs.load THEN [go |-> FALSE, locks |-> << >>]
    ELSE
      LET currentLocks == loadAllLocks(file)
          newLock == [resourceId |-> resourceId, lockType |-> lockType,
                      sessionId |-> session.sessionId, username |-> session.username,
                      timestamp |-> now]
          kept == SelectSeq(currentLocks,
                    LAMBDA l : ~(l.resourceId = resourceId
                                 /\ l.sessionId = session.sessionId))
      IN IF ~FileLockIsValid(newLock) THEN [go |-> FALSE, locks |-> << >>]
         ELSE [go |-> TRUE, locks |-> Append(kept, newLock)]

\* acquireLock that keeps the holder's old lock when it re-acquires
AcquirePrepareKeepOld(file, resourceId, lockType, session, now, fs) ==
    IF resourceId = "" \/ ~SessionIsValid(session) THEN [go |-> FALSE, locks |-> << >>]
    ELSE IF ~fs.load THEN [go |-> FALSE, locks |-> << >>]
    ELSE
      LET currentLocks == loadAllLocks(file)
          first == FirstLockOn(currentLocks, resourceId)
          newLock == [resourceId |-> resourceId, lockType |-> lockType,
                      sessionId |-> session.sessionId, username |-> session.username,
                      timestamp |-> now]
      IN IF first # 0 /\ currentLocks[first].sessionId # session.sessionId
         THEN [go |-> FALSE, locks |-> << >>]
         ELSE IF ~FileLockIsValid(newLock) THEN [go |-> FALSE, locks |-> << >>]
         ELSE [go |-> TRUE, locks |-> Append(currentLocks, newLock)]

\* first half of acquireLock: parameter check, load, conflict check and the
\* vector to be saved.  [go |-> the call reaches saveAllLocks, locks |-> that vector]
AcquirePrepare(file, resourceId, lockType, session, now, fs) ==
    IF resourceId = "" \/ ~SessionIsValid(session) THEN [go |-> FALSE, locks |-> << >>]
    ELSE IF ~fs.load THEN [go |-> FALSE, locks |-> << >>]
    ELSE
      LET currentLocks == loadAllLocks(file)
          first == FirstLockOn(currentLocks, resourceId)
          newLock == [resourceId |-> resourceId, lockType |-> lockType,
                      sessionId |-> session.sessionId, username |-> session.username,
                      timestamp |-> now]
          kept == IF first = 0 THEN currentLocks
                  ELSE SelectSeq(currentLocks,
                         LAMBDA l : ~(l.resourceId = resourceId
                                      /\ l.sessionId = session.sessionId))
      IN IF first # 0 /\ currentLocks[first].sessionId # session.sessionId
         THEN [go |-> FALSE, locks |-> << >>]
         ELSE IF ~FileLockIsValid(newLock) THEN [go |-> FALSE, locks |-> << >>]
         ELSE [go |-> TRUE, locks |-> Append(kept, newLock)]

\* acquireLock run without interruption: [ok |-> return value, file |-> file afterwards]
acquireLock(file, resourceId, lockType, session, now, fs) ==
    LET p == AcquirePrepare(file, resourceId, lockType, session, now, fs)
    IN IF ~p.go THEN [ok |-> FALSE, file |-> file]
       ELSE [ok |-> fs.save = "ok", file |-> saveAllLocks(file, p.locks, fs.save)]

\* releaseLock that removes the lock on the resource whoever holds it
releaseLockAnyHolder(file, resourceId, sessionId, fs) ==
    IF resourceId = "" \/ sessionId = "" THEN [ok |-> FALSE, file |-> file]
    ELSE IF ~fs.load THEN [ok |-> FALSE, file |-> file]
    ELSE
      LET currentLocks == loadAllLocks(file)
          kept == SelectSeq(currentLocks, LAMBDA l : l.resourceId # resourceId)
      IN IF Len(kept) < Len(currentLocks)
         THEN [ok |-> fs.save = "ok", file |-> saveAllLocks(file, kept, fs.save)]
         ELSE [ok |-> FALSE, file |-> file]

releaseLock(file, resourceId, sessionId, fs) ==
    IF resourceId = "" \/ sessionId = "" THEN [ok |-> FALSE, file |-> file]
    ELSE IF ~fs.load THEN [ok |-> FALSE, file |-> file]
    ELSE
      LET currentLocks == loadAllLocks(file)
          kept == SelectSeq(currentLocks,
                    LAMBDA l : ~(l.resourceId = resourceId /\ l.sessionId = sessionId))
      IN IF Len(kept) < Len(currentLocks)
         THEN [ok |-> fs.save = "ok", file |-> saveAllLocks(file, kept, fs.save)]
         ELSE [ok |-> FALSE, file |-> file]

releaseLocksForSession(file, sessionId, fs) ==
    IF sessionId = "" THEN [count |-> 0, file |-> file]
    ELSE IF ~fs.load THEN [count |-> 0, file |-> file]
    ELSE
      LET currentLocks == loadAllLocks(file)
          kept == SelectSeq(currentLocks, LAMBDA l : l.sessionId # sessionId)
          releasedCount == Len(currentLocks) - Len(kept)
      IN [count |-> releasedCount,
          file |-> IF releasedCount > 0 THEN saveAllLocks(file, kept, fs.save)
                   ELSE file]

\* isLocked / getLockInfo: [locked, info]
isLocked(file, resourceId, fs) ==
    IF ~fs.load THEN [locked |-> FALSE, info |-> <<>>]
    ELSE LET currentLocks == loadAllLocks(file)
             first == FirstLockOn(currentLocks, resourceId)
         IN IF first = 0 THEN [locked |-> FALSE, info |-> <<>>]
            ELSE [locked |-> TRUE, info |-> <<currentLocks[first]>>]

\* cleanupExpiredLocks: [file, last] = the file and lastCleanupTime afterwards
cleanupExpiredLocks(file, last, now, fs) ==
    IF LOCK_TIMEOUT_MS > 0 /\ UAtLeast(now, last, LOCK_CLEANUP_INTERVAL_MS)
    THEN IF ~fs.load THEN [file |-> file, last |-> now]
         ELSE LET currentLocks == loadAllLocks(file)
                  kept == SelectSeq(currentLocks,
                            LAMBDA l : ~UGreater(now, l.timestamp, LOCK_TIMEOUT_MS))
              IN [file |-> IF Len(currentLocks) - Len(kept) > 0
                           THEN saveAllLocks(file, kept, fs.save) ELSE file,
                  last |-> now]
    ELSE [file |-> file, last |-> last]

(***************************************************************************)
(* SessionManager.cpp                                                      *)
(***************************************************************************)
\* the Cookie header a client sends that holds its session cookie and nothing
\* else; "" stands for a request without Cookie header
SessionCookie(token) == IF token = "" THEN "" ELSE "session_id=" \o token

\* headers requests come with: the session cookie alone, none, and headers
\* with a cookie whose name ends in session_id
CookieHeaders ==
    {SessionCookie(k) : k \in Tokens \cup {""}}
      \cup {"xsession_id=" \o TokenOrder[1],
            "xsession_id=" \o TokenOrder[2] \o "; session_id=" \o TokenOrder[1]}

\* a request: isNull (no request object), the client's transport identity and
\* its Cookie header
Requests ==
    {[isNull |-> FALSE, client |-> c, cookie |-> h] : c \in Clients, h \in CookieHeaders}
NullRequest == [isNull |-> TRUE, client |-> [ip |-> "", ua |-> ""], cookie |-> ""]

\* SHA-256 of remote IP followed by User-Agent, in hex: one value per combined string
generateFingerprint(request) ==
    IF request.isNull THEN "" ELSE "sha256:" \o request.client.ip \o request.client.ua

\* what follows the mark at startIndex, up to the next ';' or else to the end, trimmed
EndOr(endIndex, length) == IF endIndex = -1 THEN length ELSE endIndex

SessionIdFrom(cookies, startIndex) ==
    trim(substring(cookies, startIndex, EndOr(indexOf(cookies, ";", startIndex), Len(cookies))))

\* the session id the cookie parsing of validateSession / invalidateSession
\* extracts: what follows the first occurrence of "session_id=" in the header,
\* up to the next ';', trimmed
SessionIdIn(cookies) ==
    IF cookies = "" \/ indexOf(cookies, "session_id=", 0) = -1 THEN ""
    ELSE SessionIdFrom(cookies, indexOf(cookies, "session_id=", 0) + Len("session_id="))

\* SessionIdIn of the headers the requests here carry, computed once
SessionIdInHeader == [cookies \in CookieHeaders |-> SessionIdIn(cookies)]

SessionIdOf(cookies, known) ==
    IF cookies \in DOMAIN known THEN known[cookies] ELSE SessionIdIn(cookies)

CookieSessionId(request) == SessionIdOf(request.cookie, SessionIdInHeader)

\* the value of the cookie called `name` in a Cookie header, whose cookies are
\* name=value pairs with "; " between them; "" when it holds no such cookie
RECURSIVE CookieNamed(_, _)
CookieNamed(header, name) ==
    IF header = "" THEN ""
    ELSE LET semi == indexOf(header, ";", 0)
             pair == IF semi = -1 THEN header ELSE substring(header, 0, semi)
             rest == IF semi = -1 THEN "" ELSE substring(header, semi + 1, Len(header))
             eq == indexOf(pair, "=", 0)
         IN IF eq # -1 /\ trim(substring(pair, 0, eq)) = name
            THEN trim(substring(pair, eq + 1, Len(pair)))
            ELSE CookieNamed(rest, name)

\* the value of the cookie named session_id, "" when the request carries none
SessionCookieValue(request) == CookieNamed(request.cookie, "session_id")

EraseSession(sessions, sessionId) ==
    [k \in (DOMAIN sessions) \ {sessionId} |-> sessions[k]]

removeSessionInternal(sessions, file, sessionId, fs) ==
    IF sessionId \in DOMAIN sessions
    THEN [sessions |-> EraseSession(sessions, sessionId),
          file |-> releaseLocksForSession(file, sessionId, fs).file]
    ELSE [sessions |-> sessions, file |-> file]

\* createSession storing the session without asking isValid
createSessionUnchecked(sessions, id, username, role, request, now) ==
    IF id = "" THEN [session |-> DefaultSessionData, sessions |-> sessions]
    ELSE LET newSession == [sessionId |-> id, username |-> username, userRole |-> role,
                            creationTime |-> now, lastHeartbeat |-> now,
                            fingerprint |-> generateFingerprint(request)]
         IN [session |-> newSession,
             sessions |-> [k \in (DOMAIN sessions) \cup {id} |->
                             IF k = id THEN newSession ELSE sessions[k]]]

\* createSession with generateSessionId returning `id`:
\* [session |-> the SessionData returned, sessions |-> the table afterwards]
createSession(sessions, id, username, role, request, now) ==
    IF id = "" THEN [session |-> DefaultSessionData, sessions |-> sessions]
    ELSE LET newSession == [sessionId |-> id, username |-> username, userRole |-> role,
                            creationTime |-> now, lastHeartbeat |-> now,
                            fingerprint |-> generateFingerprint(request)]
         IN IF ~SessionIsValid(newSession)
            THEN [session |-> DefaultSessionData, sessions |-> sessions]
            ELSE [session |-> newSession,
                  sessions |-> [k \in (DOMAIN sessions) \cup {id} |->
                                  IF k = id THEN newSession ELSE sessions[k]]]

\* currentTime - session.lastHeartbeat > SESSION_TIMEOUT_MS
SessionExpired(session, now) == UGreater(now, session.lastHeartbeat, SESSION_TIMEOUT_MS)

\* validateSession: [found |-> id of the session returned, "" for nullptr,
\*                   sessions, file |-> table and lock file afterwards]
validateSession(sessions, file, request, now, fs) ==
    LET sessionId == CookieSessionId(request)
        none == [found |-> "", sessions |-> sessions, file |-> file]
    IN IF request.isNull THEN none
       ELSE IF sessionId = "" THEN none
       ELSE IF sessionId \notin DOMAIN sessions THEN none
       ELSE IF SessionExpired(sessions[sessionId], now)
            THEN [found |-> ""] @@ removeSessionInternal(sessions, file, sessionId, fs)
       ELSE IF sessions[sessionId].fingerprint # generateFingerprint(request)
            THEN [found |-> ""] @@ removeSessionInternal(sessions, file, sessionId, fs)
       ELSE [found |-> sessionId,
             sessions |-> [sessions EXCEPT ![sessionId].lastHeartbeat = now],
             file |-> file]

\* invalidateSession(const String&): [ok, sessions, file]
invalidateSession(sessions, file, sessionId, fs) ==
    IF sessionId = "" THEN [ok |-> FALSE, sessions |-> sessions, file |-> file]
    ELSE IF sessionId \in DOMAIN sessions
         THEN [ok |-> TRUE] @@ removeSessionInternal(sessions, file, sessionId, fs)
         ELSE [ok |-> FALSE, sessions |-> sessions, file |-> file]

\* invalidateSession(AsyncWebServerRequest*)
invalidateSessionRequest(sessions, file, request, fs) ==
    IF request.isNull THEN [ok |-> FALSE, sessions |-> sessions, file |-> file]
    ELSE IF CookieSessionId(request) # ""
         THEN invalidateSession(sessions, file, CookieSessionId(request), fs)
         ELSE [ok |-> FALSE, sessions |-> sessions, file |-> file]

\* the second loop of cleanupExpiredSessions leaving after its first round
RemoveAllHeadOnly(sessions, file, ids, fsf) ==
    IF ids = << >> THEN [sessions |-> sessions, file |-> file]
    ELSE removeSessionInternal(sessions, file, Head(ids), fsf[Head(ids)])

\* the second loop of cleanupExpiredSessions over idsToRemove; fsf gives the
\* storage outcome met by each id's releaseLocksForSession
RECURSIVE RemoveAll(_, _, _, _)
RemoveAll(sessions, file, ids, fsf) ==
    IF ids = << >> THEN [sessions |-> sessions, file |-> file]
    ELSE LET r == removeSessionInternal(sessions, file, Head(ids), fsf[Head(ids)])
         IN RemoveAll(r.sessions, r.file, Tail(ids), fsf)

\* cleanupExpiredSessions: [sessions, file, last, removed]
cleanupExpiredSessions(sessions, file, last, now, fsf) ==
    IF UAtLeast(now, last, SESSION_CLEANUP_INTERVAL_MS)
    THEN LET idsToRemove == SelectSeq(TokenOrder,
                              LAMBDA id : id \in DOMAIN sessions
                                          /\ SessionExpired(sessions[id], now))
         IN [last |-> now, removed |-> Range(idsToRemove)]
            @@ RemoveAll(sessions, file, idsToRemove, fsf)
    ELSE [sessions |-> sessions, file |-> file, last |-> last, removed |-> {}]

(***************************************************************************)
(* Calls made one at a time (each action is one whole call)                *)
(***************************************************************************)
NoSessions == [k \in {} |-> DefaultSessionData]

\* what `ret` keeps of a call: its name, its return value (ok, count) and the
\* session id and resource id it was given
Call(op, ok, sid, res, count) ==
    [op |-> op, ok |-> ok, sid |-> sid, res |-> res, count |-> count]

\* `ret` after a step of the LockManager on its own: that call.  No call of
\* the LockManager or the SessionManager touches the OutputPointManager.
RecordAlways(call) ==
    /\ ret' = call
    /\ UNCHANGED <<outVars, raceVars, schedVars>>

\* `ret` after a step where the SessionManager is exercised too: that call if
\* the step changed anything, as before if not
Record(call) ==
    /\ ret' = IF lockCore' = lockCore THEN ret ELSE call
    /\ UNCHANGED <<outVars, raceVars, schedVars>>

\* number of locks a step takes out of the lock file
LocksDropped == IF Len(lockFile') < Len(lockFile) THEN Len(lockFile) - Len(lockFile') ELSE 0

InitLock ==
    /\ clock = 0
    /\ activeSessions = NoSessions
    /\ sessLastCleanupTime = 0
    /\ lockFile = << >>
    /\ lockLastCleanupTime = 0
    /\ issued = {}
    /\ ret = Call("boot", TRUE, "", "", 0)

\* time passes
Advance(maxTicks) ==
    /\ clock < maxTicks * TickMs
    /\ clock' = clock + TickMs
    /\ UNCHANGED <<activeSessions, sessLastCleanupTime, lockFile, lockLastCleanupTime, issued>>

Tick == Advance(MaxTicks) /\ Record(Call("tick", TRUE, "", "", 0))

\* time passes by less than the cleanup interval
ShortTick ==
    /\ clock % TickMs < MaxShortTicks * ShortTickMs
    /\ clock' = clock + ShortTickMs
    /\ UNCHANGED <<activeSessions, sessLastCleanupTime, lockFile, lockLastCleanupTime, issued>>
    /\ Record(Call("tick", TRUE, "", "", 0))

TickSweep == Advance(MaxSweepTicks) /\ Record(Call("tick", TRUE, "", "", 0))

TickLock == Advance(MaxLockTicks) /\ RecordAlways(Call("tick", TRUE, "", "", 0))

\* the id generateSessionId returns: one never handed out before
FreshIds == LET left == SelectSeq(TokenOrder, LAMBDA t : t \notin issued)
            IN IF left = << >> THEN {} ELSE {Head(left)}

CreateSessionCall(id, account, client) ==
    LET r == createSession(activeSessions, id, account.username, account.role,
                           [isNull |-> FALSE, client |-> client, cookie |-> ""], clock)
    IN /\ activeSessions' = r.sessions
       /\ issued' = IF SessionIsValid(r.session) THEN issued \cup {id} ELSE issued
       /\ UNCHANGED <<clock, sessLastCleanupTime, lockFile, lockLastCleanupTime>>

CreateSession ==
    \E id \in FreshIds, a \in Accounts \cup BadAccounts, c \in LoginClients :
      /\ CreateSessionCall(id, a, c)
      /\ Record(Call("createSession", TRUE, id, "", 0))

ValidateSessionCall(request, fs) ==
    LET r == validateSession(activeSessions, lockFile, request, clock, fs)
    IN /\ activeSessions' = r.sessions
       /\ lockFile' = r.file
       /\ UNCHANGED <<clock, sessLastCleanupTime, lockLastCleanupTime, issued>>

\* the storage outcomes that can make a difference to a call: all of them when
\* the call reaches the lock file, the successful one alone when it does not
FsFor(reachesStorage) == IF reachesStorage THEN FsOutcomes ELSE {FsOk}

ValidateSession ==
    \E request \in Requests \cup {NullRequest} :
      \E fs \in FsFor(CookieSessionId(request) \in DOMAIN activeSessions) :
        /\ ValidateSessionCall(request, fs)
        /\ Record(Call("validateSession",
                       validateSession(activeSessions, lockFile, request, clock, fs).found # "",
                       CookieSessionId(request), "", LocksDropped))

InvalidateSessionCall(request, fs) ==
    LET r == invalidateSessionRequest(activeSessions, lockFile, request, fs)
    IN /\ activeSessions' = r.sessions
       /\ lockFile' = r.file
       /\ UNCHANGED <<clock, sessLastCleanupTime, lockLastCleanupTime, issued>>

InvalidateSession ==
    \E request \in Requests \cup {NullRequest} :
      \E fs \in FsFor(CookieSessionId(request) \in DOMAIN activeSessions) :
        /\ InvalidateSessionCall(request, fs)
        /\ Record(Call("invalidateSession",
                       invalidateSessionRequest(activeSessions, lockFile, request, fs).ok,
                       CookieSessionId(request), "", LocksDropped))

CleanupExpiredSessionsCall(fsf) ==
    LET r == cleanupExpiredSessions(activeSessions, lockFile, sessLastCleanupTime,
                                    clock, fsf)
    IN /\ activeSessions' = r.sessions
       /\ lockFile' = r.file
       /\ sessLastCleanupTime' = r.last
       /\ UNCHANGED <<clock, lockLastCleanupTime, issued>>

CleanupExpiredSessions ==
    \E fsf \in [Tokens -> FsOutcomes] :
      /\ \A id \in Tokens : fsf[id] \in FsFor(id \in DOMAIN activeSessions)
      /\ CleanupExpiredSessionsCall(fsf)
      /\ Record(Call("cleanupExpiredSessions", TRUE, "", "", LocksDropped))

\* the SessionData a request handler passes on: the stored session validateSession returned
CallerSessions == {activeSessions[k] : k \in DOMAIN activeSessions}

AcquireLockCall(resourceId, lockType, session, fs) ==
    LET r == acquireLock(lockFile, resourceId, lockType, session, clock, fs)
    IN /\ lockFile' = r.file
       /\ UNCHANGED <<clock, activeSessions, sessLastCleanupTime, lockLastCleanupTime, issued>>

AcquireLock ==
    \E t \in LockTargets, session \in CallerSessions :
      \E fs \in FsFor(t.resourceId # "") :
        /\ AcquireLockCall(t.resourceId, t.lockType, session, fs)
        /\ Record(Call("acquireLock",
                       acquireLock(lockFile, t.resourceId, t.lockType, session, clock, fs).ok,
                       session.sessionId, t.resourceId, 0))

\* acquireLock with working storage
AcquireLockStored ==
    \E t \in LockTargets, session \in CallerSessions :
      /\ AcquireLockCall(t.resourceId, t.lockType, session, FsOk)
      /\ Record(Call("acquireLock",
                     acquireLock(lockFile, t.resourceId, t.lockType, session, clock, FsOk).ok,
                     session.sessionId, t.resourceId, 0))

ReleaseLockCall(resourceId, sessionId, fs) ==
    LET r == releaseLock(lockFile, resourceId, sessionId, fs)
    IN /\ lockFile' = r.file
       /\ UNCHANGED <<clock, activeSessions, sessLastCleanupTime, lockLastCleanupTime, issued>>

ReleaseLock ==
    \E resourceId \in Resources, sessionId \in Tokens \cup {""}, fs \in FsOutcomes :
      /\ ReleaseLockCall(resourceId, sessionId, fs)
      /\ RecordAlways(Call("releaseLock", releaseLock(lockFile, resourceId, sessionId, fs).ok,
                     sessionId, resourceId, 0))

ReleaseLocksForSessionCall(sessionId, fs) ==
    LET r == releaseLocksForSession(lockFile, sessionId, fs)
    IN /\ lockFile' = r.file
       /\ UNCHANGED <<clock, activeSessions, sessLastCleanupTime, lockLastCleanupTime, issued>>

ReleaseLocksForSession ==
    \E sessionId \in Tokens \cup {""}, fs \in FsOutcomes :
      /\ ReleaseLocksForSessionCall(sessionId, fs)
      /\ RecordAlways(Call("releaseLocksForSession", TRUE, sessionId, "",
                     releaseLocksForSession(lockFile, sessionId, fs).count))

CleanupExpiredLocksCall(fs) ==
    LET r == cleanupExpiredLocks(lockFile, lockLastCleanupTime, clock, fs)
    IN /\ lockFile' = r.file
       /\ lockLastCleanupTime' = r.last
       /\ UNCHANGED <<clock, activeSessions, sessLastCleanupTime, issued>>

CleanupExpiredLocks ==
    \E fs \in FsOutcomes :
      /\ CleanupExpiredLocksCall(fs)
      /\ RecordAlways(Call("cleanupExpiredLocks", TRUE, "", "", LocksDropped))

\* SessionData values of two logged-in users, as callers of the LockManager hold them
GivenSessions ==
    {[sessionId |-> "tokA", username |-> "alice", userRole |-> "OWNER",
      creationTime |-> TickMs, lastHeartbeat |-> TickMs,
      fingerprint |-> "sha256:10.0.0.11A"],
     [sessionId |-> "tokB", username |-> "bob", userRole |-> "MANAGER",
      creationTime |-> TickMs, lastHeartbeat |-> TickMs,
      fingerprint |-> "sha256:10.0.0.2A"],
     DefaultSessionData}

\* number of locks in `file` on resourceId whose holder is sessionId
HeldBy(file, resourceId, sessionId) ==
    Cardinality({i \in 1..Len(file) : /\ file[i].resourceId = resourceId
                                      /\ file[i].sessionId = sessionId})

\* acquireLock called on the LockManager with any of the given sessions
AcquireLockGiven ==
    \E t \in LockTargets, session \in GivenSessions, fs \in FsOutcomes :
      /\ AcquireLockCall(t.resourceId, t.lockType, session, fs)
      /\ RecordAlways(Call("acquireLock",
                     acquireLock(lockFile, t.resourceId, t.lockType, session, clock, fs).ok,
                     session.sessionId, t.resourceId,
                     HeldBy(lockFile, t.resourceId, session.sessionId)))

(***************************************************************************)
(* OutputPointManager.cpp                                                  *)
(***************************************************************************)
NullHandle == 0

RelayCommandTypes == {"TURN_ON", "TURN_OFF", "TURN_ON_TIMED"}

\* ioConfig.directIO.relayOutputs as begin() receives it
IOConfig(method, prefix, startIdx) ==
    [count |-> RelayCount, controlMethod |-> method,
     pointIdPrefix |-> prefix, pointIdStartIndex |-> startIdx]

\* the values loadBoardIOConfig falls back on
DefaultIOConfig == IOConfig("DirectGPIO", "DirectRelay_", 0)

\* the boards of this model: the control method is read from the board's
\* JSON file, in whatever case it is written there
IOConfigs == {DefaultIOConfig,
              IOConfig("directgpio", "DirectRelay_", 0),
              IOConfig("ShiftRegister", "DirectRelay_", 0),
              IOConfig("ShiftRegister", "DirectRelay_", 1),
              IOConfig("SHIFTREGISTER", "DirectRelay_", 0)}

RelayIndexes(cfg) == 0..(cfg.count - 1)

\* directRelayPointIdToIndexMap as buildDirectRelayMap fills it
buildDirectRelayMap(cfg) ==
    [id \in {cfg.pointIdPrefix \o ToString(cfg.pointIdStartIndex + i) : i \in RelayIndexes(cfg)}
       |-> CHOOSE i \in RelayIndexes(cfg) :
             id = cfg.pointIdPrefix \o ToString(cfg.pointIdStartIndex + i)]

\* (uint8_t)(1 << relayIndex)
RelayBit(relayIndex) == IF relayIndex < RelayStateBits THEN 2 ^ relayIndex ELSE 0

BitIsSet(state, relayIndex) ==
    relayIndex < RelayStateBits /\ (state \div (2 ^ relayIndex)) % 2 = 1

\* setDirectRelayStatePhysical: [relayState, pinLevel] afterwards.  With
\* DirectGPIO every relay index resolves to pin 0.
setDirectRelayStatePhysical(cfg, state, pin, relayIndex, on) ==
    CASE equalsIgnoreCase(cfg.controlMethod, "DirectGPIO") ->
           [relayState |-> state, pinLevel |-> IF on THEN 1 ELSE 0]
      [] equalsIgnoreCase(cfg.controlMethod, "ShiftRegister") ->
           [relayState |-> IF on
                           THEN (IF BitIsSet(state, relayIndex) THEN state
                                 ELSE (state + RelayBit(relayIndex)) % (2 ^ RelayStateBits))
                           ELSE (IF BitIsSet(state, relayIndex)
                                 THEN state - RelayBit(relayIndex) ELSE state),
            pinLevel |-> pin]
      [] OTHER -> [relayState |-> state, pinLevel |-> pin]

\* the output a relay index drives, as the hardware shows it
ChannelOn(relayIndex) ==
    CASE equalsIgnoreCase(ioConfig.controlMethod, "DirectGPIO") -> pinLevel = 1
      [] equalsIgnoreCase(ioConfig.controlMethod, "ShiftRegister") ->
           BitIsSet(relayState, relayIndex)
      [] OTHER -> FALSE

OutputCommand(pointId, commandType, durationMs) ==
    [pointId |-> pointId, commandType |-> commandType, durationMs |-> durationMs]

\* sendCommand on a queue without a capacity
sendCommandUnbounded(queue, command) == [ok |-> TRUE, queue |-> Append(queue, command)]

\* sendCommand: xQueueSendToBack with no wait. [ok |-> return value, queue |-> queue afterwards]
sendCommand(queue, command) ==
    IF Len(queue) < QueueCapacity
    THEN [ok |-> TRUE, queue |-> Append(queue, command)]
    ELSE [ok |-> FALSE, queue |-> queue]

\* the command a relay's timer task submits when its delay is over
TimerOffCommand(relayIndex) ==
    OutputCommand("DirectRelay_" \o ToString(relayIndex), "TURN_OFF", 0)

WorkerAt(pc, relayIndex, durationMs, seen) ==
    [pc |-> pc, relayIndex |-> relayIndex, durationMs |-> durationMs, seen |-> seen]

WorkerWaiting == WorkerAt("receive", 0, 0, NullHandle)

NoTimerTasks == [k \in {} |-> [relayIndex |-> 0, durationMs |-> 0, pc |-> "delay"]]

\* the state begin(cfg) leaves
InitOut(cfgs) ==
    /\ ioConfig \in cfgs
    /\ relayState = 0
    /\ pinLevel = 0
    /\ commandQueue = << >>
    /\ activeTimerTasks = [i \in RelayIndexes(ioConfig) |-> NullHandle]
    /\ timerTasks = NoTimerTasks
    /\ nextTask = 1
    /\ worker = WorkerWaiting
    /\ submits = 0

\* a task calls sendCommand(command); the calls are counted up to MaxFloodSubmits
SendCommandCall(command) ==
    LET r == sendCommand(commandQueue, command)
    IN /\ commandQueue' = r.queue
       /\ ret' = Call("sendCommand", r.ok, "", command.pointId, 0)
       /\ submits' = IF submits < MaxFloodSubmits THEN submits + 1 ELSE submits
       /\ UNCHANGED <<lockCore, raceVars, schedVars, ioConfig, relayState, pinLevel, activeTimerTasks, timerTasks,
                      nextTask, worker>>

\* processCommandQueueTask, xQueueReceive to the end of the switch; a
\* TURN_ON_TIMED goes on to the timer handling below
WorkerReceive ==
    /\ worker.pc = "receive"
    /\ commandQueue # << >>
    /\ LET cmd == Head(commandQueue)
           map == buildDirectRelayMap(ioConfig)
       IN /\ commandQueue' = Tail(commandQueue)
          /\ IF cmd.pointId \in DOMAIN map
             THEN LET relayIndex == map[cmd.pointId]
                      hw == setDirectRelayStatePhysical(ioConfig, relayState, pinLevel,
                                                        relayIndex, cmd.commandType # "TURN_OFF")
                  IN /\ relayState' = hw.relayState
                     /\ pinLevel' = hw.pinLevel
                     /\ worker' = IF cmd.commandType = "TURN_ON_TIMED"
                                  THEN WorkerAt("check", relayIndex, cmd.durationMs, NullHandle)
                                  ELSE worker
             ELSE UNCHANGED <<relayState, pinLevel, worker>>
    /\ UNCHANGED <<lockCore, raceVars, schedVars, ioConfig, activeTimerTasks, timerTasks, nextTask, submits, ret>>

\* the test activeTimerTasks[relayIndex] != nullptr
WorkerCheck ==
    /\ worker.pc = "check"
    /\ worker' = IF activeTimerTasks[worker.relayIndex] # NullHandle
                 THEN [worker EXCEPT !.pc = "delete", !.seen = activeTimerTasks[worker.relayIndex]]
                 ELSE [worker EXCEPT !.pc = "create"]
    /\ UNCHANGED <<lockCore, raceVars, schedVars, ioConfig, relayState, pinLevel, commandQueue, activeTimerTasks,
                   timerTasks, nextTask, submits, ret>>

\* vTaskDelete(activeTimerTasks[relayIndex]): the handle passed is the one the
\* test saw or the one stored now.  A null handle deletes the calling task; a
\* handle of a task that has already deleted itself is undefined behaviour,
\* which either goes unnoticed or stops the command processor.
WorkerDelete ==
    /\ worker.pc = "delete"
    /\ \E h \in {worker.seen, activeTimerTasks[worker.relayIndex]} :
         IF h = NullHandle
         THEN /\ worker' = [worker EXCEPT !.pc = "stopped"]
              /\ UNCHANGED timerTasks
         ELSE IF h \in DOMAIN timerTasks
         THEN /\ timerTasks' = [k \in (DOMAIN timerTasks) \ {h} |-> timerTasks[k]]
              /\ worker' = [worker EXCEPT !.pc = "clear"]
         ELSE /\ \E next \in {"clear", "stopped"} : worker' = [worker EXCEPT !.pc = next]
              /\ UNCHANGED timerTasks
    /\ UNCHANGED <<lockCore, raceVars, schedVars, ioConfig, relayState, pinLevel, commandQueue, activeTimerTasks,
                   nextTask, submits, ret>>

\* activeTimerTasks[relayIndex] = nullptr
WorkerClear ==
    /\ worker.pc = "clear"
    /\ activeTimerTasks' = [activeTimerTasks EXCEPT ![worker.relayIndex] = NullHandle]
    /\ worker' = [worker EXCEPT !.pc = "create"]
    /\ UNCHANGED <<lockCore, raceVars, schedVars, ioConfig, relayState, pinLevel, commandQueue, timerTasks, nextTask,
                   submits, ret>>

\* xTaskCreate of the relay's timer task, its handle stored in activeTimerTasks
WorkerCreate ==
    /\ worker.pc = "create"
    /\ timerTasks' = [k \in (DOMAIN timerTasks) \cup {nextTask} |->
                        IF k = nextTask
                        THEN [relayIndex |-> worker.relayIndex,
                              durationMs |-> worker.durationMs, pc |-> "delay"]
                        ELSE timerTasks[k]]
    /\ activeTimerTasks' = [activeTimerTasks EXCEPT ![worker.relayIndex] = nextTask]
    /\ nextTask' = nextTask + 1
    /\ worker' = WorkerWaiting
    /\ UNCHANGED <<lockCore, raceVars, schedVars, ioConfig, relayState, pinLevel, commandQueue, submits, ret>>

\* a timer task that switches its relay off itself instead of queueing a command
TimerExpireDirect(task) ==
    LET hw == setDirectRelayStatePhysical(ioConfig, relayState, pinLevel,
                                          timerTasks[task].relayIndex, FALSE)
    IN /\ timerTasks[task].pc = "delay"
       /\ relayState' = hw.relayState
       /\ pinLevel' = hw.pinLevel
       /\ timerTasks' = [timerTasks EXCEPT ![task].pc = "sent"]
       /\ UNCHANGED <<lockCore, raceVars, schedVars, ioConfig, commandQueue, activeTimerTasks, nextTask,
                      worker, submits, ret>>

\* a timer task: vTaskDelay is over, the TURN_OFF is handed to sendCommand
TimerExpire(task) ==
    /\ timerTasks[task].pc = "delay"
    /\ commandQueue' = sendCommand(commandQueue, TimerOffCommand(timerTasks[task].relayIndex)).queue
    /\ timerTasks' = [timerTasks EXCEPT ![task].pc = "sent"]
    /\ UNCHANGED <<lockCore, raceVars, schedVars, ioConfig, relayState, pinLevel, activeTimerTasks, nextTask, worker,
                   submits, ret>>

\* a timer task: activeTimerTasks[relayIndex] = nullptr
TimerClear(task) ==
    /\ timerTasks[task].pc = "sent"
    /\ activeTimerTasks' = [activeTimerTasks EXCEPT ![timerTasks[task].relayIndex] = NullHandle]
    /\ timerTasks' = [timerTasks EXCEPT ![task].pc = "cleared"]
    /\ UNCHANGED <<lockCore, raceVars, schedVars, ioConfig, relayState, pinLevel, commandQueue, nextTask, worker,
                   submits, ret>>

\* a timer task: delete tp; vTaskDelete(nullptr)
TimerExit(task) ==
    /\ timerTasks[task].pc = "cleared"
    /\ timerTasks' = [k \in (DOMAIN timerTasks) \ {task} |-> timerTasks[k]]
    /\ UNCHANGED <<lockCore, raceVars, schedVars, ioConfig, relayState, pinLevel, commandQueue, activeTimerTasks,
                   nextTask, worker, submits, ret>>

\* TURN_ON_TIMED commands submitted so far that have not ended in a timer task yet
TimedPending ==
    Cardinality({i \in 1..Len(commandQueue) : commandQueue[i].commandType = "TURN_ON_TIMED"})
      + (IF worker.pc \in {"check", "delete", "clear", "create"} THEN 1 ELSE 0)

\* no more than MaxTimers TURN_ON_TIMED commands are submitted in a run
MayArm(command) ==
    command.commandType = "TURN_ON_TIMED" => (nextTask - 1) + TimedPending < MaxTimers

ClientPointIds == {"DirectRelay_0", "DirectRelay_1"}

ClientCommands ==
    {OutputCommand(p, t, IF t = "TURN_ON_TIMED" THEN TimedMs ELSE 0) :
       p \in ClientPointIds, t \in RelayCommandTypes}

\* the commands the test task of main.cpp submits, round after round
FloodCommands ==
    {OutputCommand("DirectRelay_0", "TURN_ON", 0),
     OutputCommand("DirectRelay_0", "TURN_OFF", 0),
     OutputCommand("DirectRelay_0", "TURN_ON_TIMED", TimedMs)}

\* commands of a caller of sendCommand that arms DirectRelay_0 and from then
\* on only addresses another channel
BusyCommands ==
    {OutputCommand("DirectRelay_0", "TURN_ON_TIMED", TimedMs),
     OutputCommand("DirectRelay_1", "TURN_ON", 0)}

(***************************************************************************)
(* acquireLock on request handler tasks that run at the same time          *)
(***************************************************************************)
HandlerTasks == {"handler1", "handler2"}

AcqIdle == [pc |-> "idle", resourceId |-> "", sessionId |-> "", locks |-> << >>, ok |-> FALSE]

SweepIdle == [pc |-> "idle", locks |-> << >>, now |-> 0, ids |-> << >>]

InitRace ==
    /\ acq = [task \in HandlerTasks |-> AcqIdle]
    /\ sweep = SweepIdle

\* acquireLock up to the decision to save: loadAllLocks has read the file
AcquireLoad(task) ==
    /\ acq[task].pc = "idle"
    /\ \E t \in LockTargets, session \in GivenSessions :
         LET p == AcquirePrepare(lockFile, t.resourceId, t.lockType, session, clock, FsOk)
         IN acq' = [acq EXCEPT ![task] =
                      [pc |-> IF p.go THEN "loaded" ELSE "returned",
                       resourceId |-> t.resourceId, sessionId |-> session.sessionId,
                       locks |-> p.locks, ok |-> FALSE]]
    /\ UNCHANGED <<lockCore, ret, outVars, sweep, schedVars>>

\* acquireLock from saveAllLocks to its return
AcquireSave(task) ==
    /\ acq[task].pc = "loaded"
    /\ lockFile' = saveAllLocks(lockFile, acq[task].locks, "ok")
    /\ acq' = [acq EXCEPT ![task].pc = "returned", ![task].ok = TRUE, ![task].locks = << >>]
    /\ UNCHANGED <<clock, activeSessions, sessLastCleanupTime, lockLastCleanupTime, issued,
                   ret, outVars, sweep, schedVars>>

\* the handler is done with the result and free for the next request
AcquireReturn(task) ==
    /\ acq[task].pc = "returned"
    /\ acq' = [acq EXCEPT ![task] = AcqIdle]
    /\ UNCHANGED <<lockCore, ret, outVars, sweep, schedVars>>

\* cleanupExpiredLocks on the loop task: currentTime = millis() and the test
\* of the cleanup interval; a call that is not due returns without a change
SweepRead ==
    /\ sweep.pc = "idle"
    /\ LOCK_TIMEOUT_MS > 0
    /\ UAtLeast(clock, lockLastCleanupTime, LOCK_CLEANUP_INTERVAL_MS)
    /\ sweep' = [SweepIdle EXCEPT !.pc = "read", !.now = clock]
    /\ UNCHANGED <<lockCore, ret, outVars, acq, schedVars>>

\* cleanupExpiredLocks from loadAllLocks to the decision to save: the locks
\* expired at the currentTime read before are taken out.  A failed load and a
\* pass that removes nothing end the call with lastCleanupTime = currentTime.
SweepLoad ==
    /\ sweep.pc = "read"
    /\ \E loads \in BOOLEAN :
         LET currentLocks == loadAllLocks(lockFile)
             kept == SelectSeq(currentLocks,
                       LAMBDA l : ~UGreater(sweep.now, l.timestamp, LOCK_TIMEOUT_MS))
         IN IF loads /\ Len(currentLocks) - Len(kept) > 0
            THEN /\ sweep' = [sweep EXCEPT !.pc = "loaded", !.locks = kept]
                 /\ UNCHANGED lockLastCleanupTime
            ELSE /\ lockLastCleanupTime' = sweep.now
                 /\ sweep' = SweepIdle
    /\ UNCHANGED <<clock, activeSessions, sessLastCleanupTime, lockFile, issued,
                   ret, outVars, acq, schedVars>>

\* cleanupExpiredLocks from saveAllLocks to its return
SweepSave ==
    /\ sweep.pc = "loaded"
    /\ \E save \in {"ok", "open", "write"} :
         lockFile' = saveAllLocks(lockFile, sweep.locks, save)
    /\ lockLastCleanupTime' = sweep.now
    /\ sweep' = SweepIdle
    /\ UNCHANGED <<clock, activeSessions, sessLastCleanupTime, issued, ret, outVars, acq,
                   schedVars>>

TickRace == Advance(MaxRaceTicks) /\ UNCHANGED <<ret, outVars, raceVars, schedVars>>

\* the loop task in cleanupExpiredSessions: currentTime = millis() and the test
\* of the cleanup interval; a call that is not due returns without a change
SessionSweepRead ==
    /\ sweep.pc = "idle"
    /\ UAtLeast(clock, sessLastCleanupTime, SESSION_CLEANUP_INTERVAL_MS)
    /\ sweep' = [SweepIdle EXCEPT !.pc = "sessions", !.now = clock]
    /\ UNCHANGED <<lockCore, ret, outVars, acq, schedVars>>

\* cleanupExpiredSessions, its first loop: idsToRemove takes the ids of the
\* sessions expired at the currentTime read before, in the order of the map;
\* with none to remove the call ends with lastCleanupTime = currentTime
SessionSweepScan ==
    /\ sweep.pc = "sessions"
    /\ LET idsToRemove == SelectSeq(TokenOrder,
                             LAMBDA id : id \in DOMAIN activeSessions
                                         /\ SessionExpired(activeSessions[id], sweep.now))
       IN IF idsToRemove = << >>
          THEN /\ sessLastCleanupTime' = sweep.now
               /\ sweep' = SweepIdle
          ELSE /\ sweep' = [sweep EXCEPT !.pc = "find", !.ids = idsToRemove]
               /\ UNCHANGED sessLastCleanupTime
    /\ UNCHANGED <<clock, activeSessions, lockFile, lockLastCleanupTime, issued,
                   ret, outVars, acq, schedVars>>

\* a round of the second loop up to the find of removeSessionInternal: the
\* activeSessions[id] of the printf puts a default SessionData under an id
\* that is in the map no more, and find returns the iterator to the entry
SessionSweepFind ==
    /\ sweep.pc = "find"
    /\ activeSessions' = [k \in (DOMAIN activeSessions) \cup {Head(sweep.ids)} |->
                            IF k \in DOMAIN activeSessions THEN activeSessions[k]
                            ELSE DefaultSessionData]
    /\ sweep' = [sweep EXCEPT !.pc = "found"]
    /\ UNCHANGED <<clock, sessLastCleanupTime, lockFile, lockLastCleanupTime, issued,
                   ret, outVars, acq, schedVars>>

\* releaseLocksForSession of that round from loadAllLocks to the decision to
\* save, with working storage: a session without locks leaves the file alone
SessionSweepReleaseLoad ==
    /\ sweep.pc = "found"
    /\ LET currentLocks == loadAllLocks(lockFile)
           kept == SelectSeq(currentLocks, LAMBDA l : l.sessionId # Head(sweep.ids))
       IN sweep' = IF Len(currentLocks) - Len(kept) > 0
                   THEN [sweep EXCEPT !.pc = "release", !.locks = kept]
                   ELSE [sweep EXCEPT !.pc = "erase"]
    /\ UNCHANGED <<lockCore, ret, outVars, acq, schedVars>>

\* releaseLocksForSession of that round from saveAllLocks to its return
SessionSweepReleaseSave ==
    /\ sweep.pc = "release"
    /\ lockFile' = saveAllLocks(lockFile, sweep.locks, "ok")
    /\ sweep' = [sweep EXCEPT !.pc = "erase", !.locks = << >>]
    /\ UNCHANGED <<clock, activeSessions, sessLastCleanupTime, lockLastCleanupTime, issued,
                   ret, outVars, acq, schedVars>>

\* the end of a round: the next id, or lastCleanupTime = currentTime and the return
SweepRoundDone ==
    IF Tail(sweep.ids) = << >>
    THEN /\ sessLastCleanupTime' = sweep.now
         /\ sweep' = SweepIdle
    ELSE /\ sweep' = [sweep EXCEPT !.pc = "find", !.ids = Tail(sweep.ids)]
         /\ UNCHANGED sessLastCleanupTime

\* activeSessions.erase(it) on the entry find returned
SessionSweepErase ==
    /\ sweep.pc = "erase"
    /\ Head(sweep.ids) \in DOMAIN activeSessions
    /\ activeSessions' = EraseSession(activeSessions, Head(sweep.ids))
    /\ SweepRoundDone
    /\ UNCHANGED <<clock, lockFile, lockLastCleanupTime, issued, ret, outVars, acq, schedVars>>

\* activeSessions.erase(it) after a request handler has erased the entry: the
\* iterator points at a freed node and the behaviour is undefined.  The
\* outcomes: the fault resets the controller (setup() runs again, see
\* Restart), or the call goes on over a map that has lost any of its entries.
SessionSweepEraseFreed ==
    /\ sweep.pc = "erase"
    /\ Head(sweep.ids) \notin DOMAIN activeSessions
    /\ \/ /\ clock' = 0
          /\ activeSessions' = NoSessions
          /\ sessLastCleanupTime' = 0
          /\ lockLastCleanupTime' = 0
          /\ sweep' = SweepIdle
          /\ ret' = Call("restart", TRUE, "", "", 0)
          /\ UNCHANGED <<lockFile, issued, outVars, acq, schedVars>>
       \/ /\ \E left \in SUBSET DOMAIN activeSessions :
               activeSessions' = [k \in left |-> activeSessions[k]]
          /\ SweepRoundDone
          /\ UNCHANGED <<clock, lockFile, lockLastCleanupTime, issued, ret, outVars, acq,
                         schedVars>>

\* millis() advances by one while tasks preempt each other
MsTick ==
    /\ clock % ShortTickMs < MaxMsTicks
    /\ clock' = clock + 1
    /\ UNCHANGED <<activeSessions, sessLastCleanupTime, lockFile, lockLastCleanupTime, issued>>
    /\ Record(Call("tick", TRUE, "", "", 0))

(***************************************************************************)
(* ScheduleData.h and the event validation of ScheduleManager.cpp          *)
(***************************************************************************)
AutopilotWindow(startTime, endTime, dosing) ==
    [startTime |-> startTime, endTime |-> endTime, doseVolume |-> dosing.doseVolume,
     settlingTime |-> dosing.settlingTime, doseDuration |-> dosing.doseDuration]

\* AutopilotWindow::isValid
AutopilotWindowIsValid(w) ==
    IF w.startTime < 0 \/ w.startTime > 1439 \/ w.endTime < 0 \/ w.endTime > 1439 THEN FALSE
    ELSE IF w.startTime >= w.endTime THEN FALSE
    ELSE IF (w.doseVolume <= 0 \/ w.doseDuration <= 0) /\ w.settlingTime <= 0 THEN FALSE
    ELSE TRUE

\* a default-constructed Schedule
DefaultSchedule ==
    [scheduleName |-> "", lightsOnTime |-> -1, lightsOffTime |-> -1, scheduleUID |-> "",
     autopilotWindows |-> << >>, durationEvents |-> << >>, volumeEvents |-> << >>]

\* Schedule::isValid
ScheduleIsValid(schedule) == ~(schedule.scheduleName = "" \/ schedule.scheduleUID = "")

checkTimeBounds(timeMinutes) == timeMinutes >= 0 /\ timeMinutes <= 1439

checkAutopilotOverlap(schedule, newEvent) ==
    \E i \in 1..Len(schedule.autopilotWindows) :
      LET existing == schedule.autopilotWindows[i]
      IN \/ newEvent.startTime = existing.startTime
         \/ newEvent.endTime = existing.endTime
         \/ newEvent.startTime < existing.startTime /\ newEvent.endTime > existing.endTime
         \/ newEvent.startTime > existing.startTime /\ newEvent.startTime < existing.endTime
         \/ newEvent.endTime > existing.startTime /\ newEvent.endTime < existing.endTime

compareAutopilotWindows(a, b) == a.startTime < b.startTime

compareDurationEvents(a, b) == a.startTime < b.startTime

compareVolumeEvents(a, b) == a.startTime < b.startTime

(***************************************************************************)
(* std::sort(first, last, comp) as libstdc++ does it (bits/stl_algo.h):    *)
(* __introsort_loop down to ranges of 16 elements, heap sort where the     *)
(* depth limit is used up, then __final_insertion_sort.  A vector is a     *)
(* sequence; the range first..last - 1 of its positions stands for the     *)
(* iterator range [first, last).                                           *)
(***************************************************************************)
\* the comparator of each call of std::sort in the code: the three
\* comparators above are the same test
comp(a, b) == a.startTime < b.startTime

\* _S_threshold
SortThreshold == 16

iter_swap(v, i, j) == [v EXCEPT ![i] = v[j], ![j] = v[i]]

\* std::__lg(n): the position of the highest bit of n
Lg(n) == CHOOSE k \in 0..30 : 2 ^ k <= n /\ n < 2 ^ (k + 1)

\* the iterator std::__move_median_to_first swaps with `result`
MedianOf(v, a, b, c) ==
    IF comp(v[a], v[b])
    THEN IF comp(v[b], v[c]) THEN b ELSE IF comp(v[a], v[c]) THEN c ELSE a
    ELSE IF comp(v[a], v[c]) THEN a ELSE IF comp(v[b], v[c]) THEN c ELSE b

\* std::__move_median_to_first(result, a, b, c, comp)
MoveMedianToFirst(v, result, a, b, c) == iter_swap(v, result, MedianOf(v, a, b, c))

\* while (comp(first, pivot)) ++first
RECURSIVE ScanUp(_, _, _)
ScanUp(v, first, pivot) ==
    IF comp(v[first], v[pivot]) THEN ScanUp(v, first + 1, pivot) ELSE first

\* while (comp(pivot, last)) --last
RECURSIVE ScanDown(_, _, _)
ScanDown(v, last, pivot) ==
    IF comp(v[pivot], v[last]) THEN ScanDown(v, last - 1, pivot) ELSE last

\* std::__unguarded_partition(first, last, pivot, comp): [v, cut]; a round of
\* its loop with first and last moved to `up` and `down`
RECURSIVE UnguardedPartition(_, _, _, _)
PartitionRound(v, up, down, pivot) ==
    IF ~(up < down) THEN [v |-> v, cut |-> up]
    ELSE UnguardedPartition(iter_swap(v, up, down), up + 1, down, pivot)

UnguardedPartition(v, first, last, pivot) ==
    PartitionRound(v, ScanUp(v, first, pivot), ScanDown(v, last - 1, pivot), pivot)

\* std::__unguarded_partition_pivot(first, last, comp): [v, cut]
UnguardedPartitionPivot(v, first, last) ==
    UnguardedPartition(MoveMedianToFirst(v, first, first + 1,
                                         first + (last - first) \div 2, last - 1),
                       first + 1, last, first)

\* std::__push_heap(first, holeIndex, topIndex, value, comp)
RECURSIVE PushHeap(_, _, _, _, _)
PushHeap(v, first, holeIndex, topIndex, value) ==
    IF holeIndex > topIndex /\ comp(v[first + (holeIndex - 1) \div 2], value)
    THEN PushHeap([v EXCEPT ![first + holeIndex] = v[first + (holeIndex - 1) \div 2]],
                  first, (holeIndex - 1) \div 2, topIndex, value)
    ELSE [v EXCEPT ![first + holeIndex] = value]

\* *(first + holeIndex) = *(first + child)
FillHole(v, first, holeIndex, child) == [v EXCEPT ![first + holeIndex] = v[first + child]]

\* the greater of the two children, the right one being `right`
SecondChild(v, first, right) ==
    IF comp(v[first + right], v[first + right - 1]) THEN right - 1 ELSE right

\* the loop of std::__adjust_heap that moves the hole down: [v, holeIndex]
RECURSIVE MoveHoleDown(_, _, _, _)
MoveHoleTo(v, first, holeIndex, len, secondChild) ==
    MoveHoleDown(FillHole(v, first, holeIndex, secondChild), first, secondChild, len)

MoveHoleDown(v, first, holeIndex, len) ==
    IF holeIndex < (len - 1) \div 2
    THEN MoveHoleTo(v, first, holeIndex, len, SecondChild(v, first, 2 * (holeIndex + 1)))
    ELSE [v |-> v, holeIndex |-> holeIndex]

\* the end of std::__adjust_heap: the only child of the last parent of a heap
\* of even length, then __push_heap from where the hole is
PushFromHole(down, first, len, topIndex, value) ==
    IF len % 2 = 0 /\ down.holeIndex = (len - 2) \div 2
    THEN PushHeap(FillHole(down.v, first, down.holeIndex, 2 * (down.holeIndex + 1) - 1),
                  first, 2 * (down.holeIndex + 1) - 1, topIndex, value)
    ELSE PushHeap(down.v, first, down.holeIndex, topIndex, value)

\* std::__adjust_heap(first, holeIndex, len, value, comp)
AdjustHeap(v, first, holeIndex, len, value) ==
    PushFromHole(MoveHoleDown(v, first, holeIndex, len), first, len, holeIndex, value)

\* std::__make_heap(first, last, comp) from `parent` down to 0 (the test on
\* Len(v), false for a range inside the vector, has TLC compute v at every
\* round and not at the end of the recursion; the same in SortHeap)
RECURSIVE MakeHeap(_, _, _, _)
MakeHeap(v, first, len, parent) ==
    IF Len(v) < first + len - 1 \/ parent < 0 THEN v
    ELSE MakeHeap(AdjustHeap(v, first, parent, len, v[first + parent]), first, len, parent - 1)

\* std::__sort_heap(first, last, comp), each round a std::__pop_heap
RECURSIVE SortHeap(_, _, _)
SortHeap(v, first, last) ==
    IF Len(v) < last - 1 \/ last - first <= 1 THEN v
    ELSE SortHeap(AdjustHeap([v EXCEPT ![last - 1] = v[first]], first, 0,
                             last - 1 - first, v[last - 1]),
                  first, last - 1)

\* std::__partial_sort(first, last, last, comp): heap sort of the range
PartialSort(v, first, last) ==
    IF last - first < 2 THEN v
    ELSE SortHeap(MakeHeap(v, first, last - first, (last - first - 2) \div 2), first, last)

\* std::__introsort_loop(first, last, depth_limit, comp); after the partition
\* p the part from the cut on is sorted first, then the part before it
RECURSIVE IntrosortLoop(_, _, _, _)
IntrosortParts(p, first, last, depth_limit) ==
    IntrosortLoop(IntrosortLoop(p.v, p.cut, last, depth_limit), first, p.cut, depth_limit)

IntrosortLoop(v, first, last, depth_limit) ==
    IF ~(last - first > SortThreshold) THEN v
    ELSE IF depth_limit = 0 THEN PartialSort(v, first, last)
    ELSE IntrosortParts(UnguardedPartitionPivot(v, first, last), first, last, depth_limit - 1)

\* where std::__unguarded_linear_insert leaves val: left of every element
\* before position `to` that it compares less than
RECURSIVE InsertPlace(_, _, _)
InsertPlace(v, val, to) ==
    IF to > 1 /\ comp(val, v[to - 1]) THEN InsertPlace(v, val, to - 1) ELSE to

\* the element at i moved to position `to`, those between one place up
MoveTo(v, i, to) ==
    IF to = i THEN v
    ELSE SubSeq(v, 1, to - 1) \o <<v[i]>> \o SubSeq(v, to, i - 1) \o SubSeq(v, i + 1, Len(v))

\* std::__unguarded_linear_insert(i, comp), and the branch of
\* std::__insertion_sort that moves an element smaller than the first to the front
LinearInsert(v, i) == MoveTo(v, i, InsertPlace(v, v[i], i))

\* std::__final_insertion_sort(first, last, comp) from position i on
RECURSIVE FinalInsertionSort(_, _)
FinalInsertionSort(v, i) ==
    IF i > Len(v) THEN v ELSE FinalInsertionSort(LinearInsert(v, i), i + 1)

\* std::sort(v.begin(), v.end(), comp)
StdSort(v) ==
    IF v = << >> THEN v
    ELSE FinalInsertionSort(IntrosortLoop(v, 1, Len(v) + 1, 2 * Lg(Len(v))), 2)

\* std::sort with compareAutopilotWindows after the push_back of validateAndAddEvent
SortPushedWindow(windows) == StdSort(windows)

\* validateAndAddEvent(Schedule&, const AutopilotWindow&): [ok, schedule]
validateAndAddEvent(schedule, event) ==
    IF ~AutopilotWindowIsValid(event) THEN [ok |-> FALSE, schedule |-> schedule]
    ELSE IF ~checkTimeBounds(event.startTime) \/ ~checkTimeBounds(event.endTime)
         THEN [ok |-> FALSE, schedule |-> schedule]
    ELSE IF checkAutopilotOverlap(schedule, event) THEN [ok |-> FALSE, schedule |-> schedule]
    ELSE [ok |-> TRUE,
          schedule |-> [schedule EXCEPT !.autopilotWindows =
                          SortPushedWindow(Append(schedule.autopilotWindows, event))]]

\* the windows callers pass
Windows ==
    {AutopilotWindow(s, e, d) : s \in AutopilotTimes \cup OutOfRangeTimes,
                                e \in AutopilotTimes \cup OutOfRangeTimes, d \in Dosings}

\* Schedule objects a caller starts from: a new one, and one loadSchedule read
\* from a file whose windows overlap (loadSchedule keeps every valid window)
InitialDrafts ==
    {DefaultSchedule,
     [DefaultSchedule EXCEPT !.autopilotWindows =
        <<AutopilotWindow(60, 120, [doseVolume |-> 0, doseDuration |-> 0, settlingTime |-> 5]),
          AutopilotWindow(100, 160, [doseVolume |-> 0, doseDuration |-> 0, settlingTime |-> 5])>>]}

NoneAdded == [event |-> AutopilotWindow(-1, -1, [doseVolume |-> 0, doseDuration |-> 0,
                                                 settlingTime |-> 0]),
              ok |-> FALSE]

InitDraft(drafts) ==
    /\ draft \in drafts
    /\ added = NoneAdded

ValidateAndAddEvent ==
    /\ Len(draft.autopilotWindows) < MaxWindows
    /\ \E event \in Windows :
         LET r == validateAndAddEvent(draft, event)
         IN /\ draft' = r.schedule
            /\ added' = [event |-> event, ok |-> r.ok]
    /\ UNCHANGED <<lockVars, outVars, raceVars, apiVars>>

(***************************************************************************)
(* The schedule store of ScheduleManager.cpp                               *)
(***************************************************************************)
\* UserRole enumerators in declaration order
RoleRank(role) ==
    CASE role = "VIEWER" -> 0 [] role = "MANAGER" -> 1 [] role = "OWNER" -> 2 [] OTHER -> 3

\* what one access to the schedule directory meets: "read" - a file cannot be
\* opened for reading; "open" - a file cannot be opened for writing or removed;
\* "write" - nothing is written to a file opened for writing, the index file included
SchedOutcomes == {"ok", "read", "open", "write"}

\* a ScheduleFile entry of _scheduleIndex
ScheduleFile(uid, level) ==
    [scheduleUID |-> uid, name |-> "", persistentLockLevel |-> level, lockedBy |-> ""]

ScheduleFileIsValid(sf) == sf.scheduleUID # "" /\ sf.name # ""

\* the index file beside the schedule files, which are named by their uid
IndexFile == "/allSchedules.json"

ScheduleUids(files) == (DOMAIN files) \ {IndexFile}

\* the order in which the directory lists schedule files: one fixed order
DirectoryOrder(uids) ==
    CHOOSE listing \in [1..Cardinality(uids) -> uids] :
      \A uid \in uids : \E i \in 1..Cardinality(uids) : listing[i] = uid

\* the JSON array saveScheduleIndex writes
IndexDoc(index) ==
    [json |-> TRUE,
     array |-> [i \in 1..Len(index) |->
                  [scheduleUID |-> index[i].scheduleUID, locked |-> index[i].persistentLockLevel]]]

WriteFile(files, name, content) ==
    [k \in (DOMAIN files) \cup {name} |-> IF k = name THEN content ELSE files[k]]

\* saveScheduleIndex: [ok, files]; a failing open leaves the file, a failing
\* write leaves it empty
saveScheduleIndex(files, index, outcome) ==
    IF outcome = "open" THEN [ok |-> FALSE, files |-> files]
    ELSE IF outcome = "write" THEN [ok |-> FALSE, files |-> WriteFile(files, IndexFile, << >>)]
    ELSE [ok |-> TRUE, files |-> WriteFile(files, IndexFile, <<IndexDoc(index)>>)]

\* loadScheduleIndex: [ok, index]; the entries are built from scheduleUID and
\* locked alone and kept when ScheduleFile::isValid accepts them
loadScheduleIndex(files) ==
    IF IndexFile \notin DOMAIN files THEN [ok |-> TRUE, index |-> << >>]
    ELSE IF files[IndexFile] = << >> THEN [ok |-> TRUE, index |-> << >>]
    ELSE IF ~files[IndexFile][1].json THEN [ok |-> FALSE, index |-> << >>]
    ELSE LET array == files[IndexFile][1].array
             read == [i \in 1..Len(array) |->
                        [ScheduleFile(array[i].scheduleUID, array[i].locked) EXCEPT !.name = ""]]
         IN [ok |-> TRUE, index |-> SelectSeq(read, ScheduleFileIsValid)]

\* getPersistentLockLevel that reports every indexed schedule as unlocked
getPersistentLockLevelUnlocked(index, uid) ==
    IF \E i \in 1..Len(index) : index[i].scheduleUID = uid THEN 0 ELSE -1

\* the user name getScheduleList and maintainScheduleIndex write into
\* lockedBy for what isLocked reported
LockedByOf(lock) == IF lock.locked THEN lock.info[1].username ELSE ""

getPersistentLockLevel(index, uid) ==
    LET hits == SelectSeq(index, LAMBDA sf : sf.scheduleUID = uid)
    IN IF hits = << >> THEN -1 ELSE hits[1].persistentLockLevel

\* std::sort with compareAutopilotWindows
SortWindows(windows) == StdSort(windows)

\* the most duration and volume events a schedule holds together
MaxEvents == 100

DurationEvent(startTime, duration, endTime) ==
    [startTime |-> startTime, duration |-> duration, endTime |-> endTime]

VolumeEvent(startTime, doseVolume) ==
    [startTime |-> startTime, doseVolume |-> doseVolume, calculatedDuration |-> -1]

DurationEventIsValid(e) ==
    /\ ~(e.startTime < 0 \/ e.startTime > 1439)
    /\ ~(e.duration <= 0)

VolumeEventIsValid(e) ==
    /\ ~(e.startTime < 0 \/ e.startTime > 1439)
    /\ ~(e.doseVolume <= 0)

\* checkDurationVolumeLimit that counts the duration events alone
checkDurationVolumeLimitDurationsOnly(schedule, newEventCount) ==
    Len(schedule.durationEvents) + newEventCount <= MaxEvents

checkDurationVolumeLimit(schedule, newEventCount) ==
    Len(schedule.durationEvents) + Len(schedule.volumeEvents) + newEventCount <= MaxEvents

checkDurationOverlap(schedule, newEvent) ==
    \E i \in 1..Len(schedule.durationEvents) :
      LET existing == schedule.durationEvents[i]
      IN \/ newEvent.startTime = existing.startTime
         \/ newEvent.startTime > existing.startTime /\ newEvent.startTime < existing.endTime
         \/ /\ newEvent.duration > 0
            /\ newEvent.endTime > existing.startTime
            /\ newEvent.endTime < existing.endTime
         \/ /\ newEvent.duration > 0
            /\ newEvent.startTime < existing.startTime
            /\ newEvent.endTime > existing.endTime

checkVolumeOverlap(schedule, newEvent) ==
    \/ \E i \in 1..Len(schedule.volumeEvents) :
         newEvent.startTime = schedule.volumeEvents[i].startTime
    \/ \E i \in 1..Len(schedule.durationEvents) :
         /\ newEvent.startTime > schedule.durationEvents[i].startTime
         /\ newEvent.startTime < schedule.durationEvents[i].endTime

\* std::sort with compareDurationEvents or compareVolumeEvents of a vector
\* after the push_back of each event of `pushed`
SortEvents(events, pushed) == StdSort(events \o pushed)

\* the checks validateAndAddEvents(DurationEvent) makes on one event of the batch
DurationEventPasses(schedule, event) ==
    /\ DurationEventIsValid(event)
    /\ checkTimeBounds(event.startTime) /\ checkTimeBounds(event.endTime)
    /\ ~checkDurationOverlap(schedule, event)
    /\ ~checkVolumeOverlap(schedule, VolumeEvent(event.startTime, 0))

\* the checks validateAndAddEvents(VolumeEvent) makes on one event of the batch
VolumeEventPasses(schedule, event) ==
    /\ VolumeEventIsValid(event)
    /\ checkTimeBounds(event.startTime)
    /\ ~checkVolumeOverlap(schedule, event)
    /\ ~checkDurationOverlap(schedule, DurationEvent(event.startTime, 0, event.startTime))

\* validateAndAddEvents(DurationEvent) that pushes each event as soon as it
\* has passed its checks
RECURSIVE validateAndAddDurationEventsEager(_, _)
validateAndAddDurationEventsEager(schedule, events) ==
    IF ~checkDurationVolumeLimit(schedule, Len(events)) THEN [ok |-> FALSE, schedule |-> schedule]
    ELSE IF events = << >> THEN [ok |-> TRUE, schedule |-> schedule]
    ELSE IF ~DurationEventPasses(schedule, events[1]) THEN [ok |-> FALSE, schedule |-> schedule]
    ELSE validateAndAddDurationEventsEager(
           [schedule EXCEPT !.durationEvents = SortEvents(@, <<events[1]>>)],
           Tail(events))

\* validateAndAddEvents(Schedule&, const std::vector<DurationEvent>&): [ok, schedule].
\* Events of one batch that start together stay in the order of the batch.
validateAndAddDurationEvents(schedule, events) ==
    IF ~checkDurationVolumeLimit(schedule, Len(events)) THEN [ok |-> FALSE, schedule |-> schedule]
    ELSE IF \E i \in 1..Len(events) : ~DurationEventPasses(schedule, events[i])
         THEN [ok |-> FALSE, schedule |-> schedule]
    ELSE [ok |-> TRUE,
          schedule |-> [schedule EXCEPT !.durationEvents = SortEvents(@, events)]]

\* validateAndAddEvents(Schedule&, const std::vector<VolumeEvent>&): [ok, schedule]
validateAndAddVolumeEvents(schedule, events) ==
    IF ~checkDurationVolumeLimit(schedule, Len(events)) THEN [ok |-> FALSE, schedule |-> schedule]
    ELSE IF \E i \in 1..Len(events) : ~VolumeEventPasses(schedule, events[i])
         THEN [ok |-> FALSE, schedule |-> schedule]
    ELSE [ok |-> TRUE,
          schedule |-> [schedule EXCEPT !.volumeEvents = SortEvents(@, events)]]

\* the batches of duration events callers pass: single events that end
\* together, touch or overlap, an event without duration, one that ends out
\* of range, and batches of two
DurationBatches ==
    LET a == DurationEvent(60, 3600, 120)
        b == DurationEvent(50, 4200, 120)
        c == DurationEvent(100, 3600, 160)
        d == DurationEvent(120, 3600, 180)
    IN {<<a>>, <<b>>, <<c>>, <<d>>,
        <<DurationEvent(70, 0, 70)>>, <<DurationEvent(1400, 2400, 1440)>>,
        <<a, d>>, <<d, DurationEvent(70, 0, 70)>>, << >>,
        <<DurationEvent(300, 3600, 360), DurationEvent(300, 1800, 330)>>}

VolumeBatches ==
    LET v(t) == VolumeEvent(t, 10)
    IN {<<v(60)>>, <<v(100)>>, <<v(130)>>, <<VolumeEvent(10, 0)>>, <<v(1440)>>,
        <<v(200), v(200)>>, <<v(130), VolumeEvent(10, 0)>>}

\* the autopilot windows added beside them
FewWindows ==
    LET settles == [doseVolume |-> 0, doseDuration |-> 0, settlingTime |-> 5]
    IN {AutopilotWindow(60, 120, settles), AutopilotWindow(100, 160, settles),
        AutopilotWindow(120, 120, settles)}

\* a schedule that Prefilled successful calls have filled with volume events
PrefilledSchedule ==
    [DefaultSchedule EXCEPT !.volumeEvents = [i \in 1..Prefilled |-> VolumeEvent(999 + i, 10)]]

NoEventsAdded == [kind |-> "", event |-> << >>, ok |-> FALSE]

InitEvents ==
    /\ draft \in {DefaultSchedule, PrefilledSchedule}
    /\ added = NoEventsAdded

ValidateAndAddDurationEvents ==
    /\ \E events \in DurationBatches :
         LET r == validateAndAddDurationEvents(draft, events)
         IN /\ draft' = r.schedule
            /\ added' = [kind |-> "duration", event |-> events, ok |-> r.ok]
    /\ UNCHANGED <<lockVars, outVars, raceVars, apiVars>>

ValidateAndAddVolumeEvents ==
    /\ \E events \in VolumeBatches :
         LET r == validateAndAddVolumeEvents(draft, events)
         IN /\ draft' = r.schedule
            /\ added' = [kind |-> "volume", event |-> events, ok |-> r.ok]
    /\ UNCHANGED <<lockVars, outVars, raceVars, apiVars>>

ValidateAndAddWindow ==
    /\ \E event \in FewWindows :
         LET r == validateAndAddEvent(draft, event)
         IN /\ draft' = r.schedule
            /\ added' = [kind |-> "autopilot", event |-> <<event>>, ok |-> r.ok]
    /\ UNCHANGED <<lockVars, outVars, raceVars, apiVars>>

\* maintainScheduleIndex that drops the entries without a file and adds none
\* for the files without an entry
maintainScheduleIndexNoAdd(index, files, locks, outcome) ==
    LET kept == SelectSeq(index, LAMBDA sf : sf.scheduleUID \in ScheduleUids(files))
    IN [index |-> kept,
        files |-> IF Len(kept) < Len(index) THEN saveScheduleIndex(files, kept, outcome).files
                  ELSE files]

\* maintainScheduleIndex: [index, files].  Entries without a file go, files
\* without an entry get one at level 0 in directory order, lockedBy is read
\* from the LockManager, and the index is saved when it changed
maintainScheduleIndex(index, files, locks, outcome) ==
    LET actualFiles == ScheduleUids(files)
        kept == SelectSeq(index, LAMBDA sf : sf.scheduleUID \in actualFiles)
        missing == DirectoryOrder({uid \in actualFiles :
                                     \A i \in 1..Len(kept) : kept[i].scheduleUID # uid})
        synced == kept \o [i \in 1..Len(missing) |-> ScheduleFile(missing[i], 0)]
        result == [i \in 1..Len(synced) |->
                     [synced[i] EXCEPT !.lockedBy =
                        LockedByOf(isLocked(locks, "schedule_" \o synced[i].scheduleUID,
                                            FsOk))]]
        indexChanged == Len(kept) < Len(index) \/ missing # << >>
    IN [index |-> result,
        files |-> IF indexChanged THEN saveScheduleIndex(files, result, outcome).files
                  ELSE files]

\* begin: [ok, index, files]
begin(files, locks, outcome) ==
    LET l == loadScheduleIndex(files)
        s == saveScheduleIndex(files, << >>, outcome)
        mm == maintainScheduleIndex(l.index, IF l.ok THEN files ELSE s.files, locks, outcome)
    IN IF ~l.ok /\ ~s.ok THEN [ok |-> FALSE, index |-> << >>, files |-> s.files]
       ELSE [ok |-> TRUE, index |-> mm.index, files |-> mm.files]

\* loadSchedule: [ok, schedule]; a schedule file holds << >> when it is empty
\* and <<the JSON document saveSchedule wrote>> otherwise
loadSchedule(files, uid, outcome) ==
    IF uid \notin ScheduleUids(files) \/ outcome = "read"
    THEN [ok |-> FALSE, schedule |-> DefaultSchedule]
    ELSE IF files[uid] = << >> THEN [ok |-> FALSE, schedule |-> DefaultSchedule]
    ELSE LET doc == files[uid][1]
             schedule == [doc EXCEPT
                            !.scheduleUID = IF doc.scheduleUID = "" THEN uid ELSE doc.scheduleUID,
                            !.autopilotWindows =
                               SortWindows(SelectSeq(doc.autopilotWindows, AutopilotWindowIsValid)),
                            !.durationEvents =
                               SortEvents(<< >>, SelectSeq(doc.durationEvents, DurationEventIsValid)),
                            !.volumeEvents =
                               SortEvents(<< >>, SelectSeq(doc.volumeEvents, VolumeEventIsValid))]
         IN [ok |-> ScheduleIsValid(schedule), schedule |-> schedule]

\* saveSchedule that adds an index entry on every save
saveScheduleAlwaysIndexed(index, files, schedule, outcome) ==
    IF ~ScheduleIsValid(schedule) THEN [ok |-> FALSE, index |-> index, files |-> files]
    ELSE IF outcome = "open" THEN [ok |-> FALSE, index |-> index, files |-> files]
    ELSE LET uid == schedule.scheduleUID
             doc == [schedule EXCEPT
                       !.autopilotWindows =
                          [i \in 1..Len(schedule.autopilotWindows) |->
                             [schedule.autopilotWindows[i] EXCEPT !.doseDuration = 0]],
                       !.volumeEvents =
                          [i \in 1..Len(schedule.volumeEvents) |->
                             [schedule.volumeEvents[i] EXCEPT !.calculatedDuration = -1]]]
             written == IF outcome = "write" THEN << >> ELSE <<doc>>
             stored == WriteFile(files, uid, written)
             foundInIndex == \E i \in 1..Len(index) : index[i].scheduleUID = uid
             newIndex == Append(index, ScheduleFile(uid, 0))
         IN IF outcome = "write" THEN [ok |-> FALSE, index |-> index, files |-> stored]
            ELSE [ok |-> TRUE, index |-> newIndex,
                  files |-> saveScheduleIndex(stored, newIndex, outcome).files]

\* saveSchedule: [ok, index, files]; doseDuration and calculatedDuration are
\* not among the fields written.  The index is saved when an entry was added.
saveSchedule(index, files, schedule, outcome) ==
    IF ~ScheduleIsValid(schedule) THEN [ok |-> FALSE, index |-> index, files |-> files]
    ELSE IF outcome = "open" THEN [ok |-> FALSE, index |-> index, files |-> files]
    ELSE LET uid == schedule.scheduleUID
             doc == [schedule EXCEPT
                       !.autopilotWindows =
                          [i \in 1..Len(schedule.autopilotWindows) |->
                             [schedule.autopilotWindows[i] EXCEPT !.doseDuration = 0]],
                       !.volumeEvents =
                          [i \in 1..Len(schedule.volumeEvents) |->
                             [schedule.volumeEvents[i] EXCEPT !.calculatedDuration = -1]]]
             written == IF outcome = "write" THEN << >> ELSE <<doc>>
             stored == WriteFile(files, uid, written)
             foundInIndex == \E i \in 1..Len(index) : index[i].scheduleUID = uid
             newIndex == Append(index, ScheduleFile(uid, 0))
         IN IF outcome = "write" THEN [ok |-> FALSE, index |-> index, files |-> stored]
            ELSE IF foundInIndex THEN [ok |-> TRUE, index |-> index, files |-> stored]
            ELSE [ok |-> TRUE, index |-> newIndex,
                  files |-> saveScheduleIndex(stored, newIndex, outcome).files]

\* deleteSchedule that does not look at what saveScheduleIndex returned
deleteScheduleIgnoringIndexSave(index, files, uid, outcome) ==
    IF uid \notin ScheduleUids(files) THEN [ok |-> FALSE, index |-> index, files |-> files]
    ELSE IF outcome = "open" THEN [ok |-> FALSE, index |-> index, files |-> files]
    ELSE LET left == [k \in (DOMAIN files) \ {uid} |-> files[k]]
             kept == SelectSeq(index, LAMBDA sf : sf.scheduleUID # uid)
             s == saveScheduleIndex(left, kept, outcome)
         IN IF Len(kept) < Len(index)
            THEN [ok |-> TRUE, index |-> kept, files |-> s.files]
            ELSE [ok |-> TRUE, index |-> index, files |-> left]

\* deleteSchedule: [ok, index, files]; under "open" the file cannot be
\* removed, under "write" the index cannot be saved
deleteSchedule(index, files, uid, outcome) ==
    IF uid \notin ScheduleUids(files) THEN [ok |-> FALSE, index |-> index, files |-> files]
    ELSE IF outcome = "open" THEN [ok |-> FALSE, index |-> index, files |-> files]
    ELSE LET left == [k \in (DOMAIN files) \ {uid} |-> files[k]]
             kept == SelectSeq(index, LAMBDA sf : sf.scheduleUID # uid)
             s == saveScheduleIndex(left, kept, outcome)
         IN IF Len(kept) < Len(index)
            THEN [ok |-> s.ok, index |-> kept, files |-> s.files]
            ELSE [ok |-> TRUE, index |-> index, files |-> left]

\* the schedule the flash holds as file "a"
StoredSchedule ==
    [DefaultSchedule EXCEPT !.scheduleName = "Veg", !.scheduleUID = "a",
                            !.lightsOnTime = 300, !.lightsOffTime = 1080]

\* the schedule objects callers save: one with every kind of event, one whose
\* window doses by volume and duration, one without a name, and one that
\* replaces the first with its events out of order
StoreSchedules ==
    LET settles == [doseVolume |-> 0, doseDuration |-> 0, settlingTime |-> 5]
        doses == [doseVolume |-> 10, doseDuration |-> 30, settlingTime |-> 0]
        veg == [DefaultSchedule EXCEPT !.scheduleName = "Veg", !.scheduleUID = "a",
                                       !.lightsOnTime = 360, !.lightsOffTime = 1080]
    IN {[veg EXCEPT !.autopilotWindows = <<AutopilotWindow(60, 120, settles)>>,
                    !.durationEvents = <<DurationEvent(200, 600, 210)>>,
                    !.volumeEvents = <<VolumeEvent(300, 10)>>],
        [veg EXCEPT !.scheduleName = "Bloom", !.scheduleUID = "b",
                    !.autopilotWindows = <<AutopilotWindow(60, 120, doses)>>],
        [veg EXCEPT !.scheduleName = ""],
        [veg EXCEPT !.durationEvents = <<DurationEvent(400, 600, 410),
                                         DurationEvent(200, 600, 210)>>]}

StoreUids == {"a", "b"}

\* what LittleFS holds when the controller starts: nothing, a schedule file
\* with the index saveScheduleIndex wrote for it, a schedule file beside an
\* index that names another, and an empty schedule file beside an index that
\* is not JSON
Disks ==
    LET doc == StoredSchedule
        none == [uid \in {} |-> << >>]
    IN {none,
        saveScheduleIndex(WriteFile(none, "a", <<doc>>), <<ScheduleFile("a", 0)>>, "ok").files,
        saveScheduleIndex(WriteFile(none, "a", <<doc>>), <<ScheduleFile("b", 0)>>, "ok").files,
        WriteFile(WriteFile(none, "a", << >>), IndexFile, <<[json |-> FALSE, array |-> << >>]>>)}

NoStoreCall == [kind |-> "", event |-> << >>, ok |-> FALSE]

SaveScheduleCall ==
    \E schedule \in StoreSchedules, outcome \in {"ok", "open", "write"} :
      LET r == saveSchedule(scheduleIndex, scheduleFiles, schedule, outcome)
      IN /\ scheduleIndex' = r.index
         /\ scheduleFiles' = r.files
         /\ added' = [kind |-> "save", event |-> <<schedule.scheduleUID, outcome>>, ok |-> r.ok]
         /\ UNCHANGED <<lockVars, outVars, raceVars, resp, draft>>

LoadScheduleCall ==
    \E uid \in StoreUids, outcome \in {"ok", "read"} :
      LET r == loadSchedule(scheduleFiles, uid, outcome)
      IN /\ scheduleIndex' = scheduleIndex
         /\ scheduleFiles' = scheduleFiles
         /\ added' = [kind |-> "load", event |-> <<uid, outcome>>, ok |-> r.ok]
         /\ UNCHANGED <<lockVars, outVars, raceVars, resp, draft>>

\* a storage failure is drawn when the file to delete exists
DeleteScheduleCall ==
    \E uid \in StoreUids :
      \E outcome \in IF uid \in ScheduleUids(scheduleFiles) THEN {"ok", "open", "write"}
                     ELSE {"ok"} :
        LET r == deleteSchedule(scheduleIndex, scheduleFiles, uid, outcome)
        IN /\ scheduleIndex' = r.index
           /\ scheduleFiles' = r.files
           /\ added' = [kind |-> "delete", event |-> <<uid, outcome>>, ok |-> r.ok]
           /\ UNCHANGED <<lockVars, outVars, raceVars, resp, draft>>

\* a restart: begin() runs on what the flash holds
Begin ==
    \E outcome \in {"ok", "open", "write"} :
      LET r == begin(scheduleFiles, lockFile, outcome)
      IN /\ scheduleIndex' = r.index
         /\ scheduleFiles' = r.files
         /\ added' = [kind |-> "begin", event |-> <<"", outcome>>, ok |-> r.ok]
         /\ UNCHANGED <<lockVars, outVars, raceVars, resp, draft>>

\* the characters sanitizeFilename keeps
allowedChars == "abcdefghijklmnopqrstuvwxyzABCDEFGHIJKLMNOPQRSTUVWXYZ0123456789_-"

\* sanitized.replace(" ", "_") on one character
SpaceToUnderscore(c) == IF c = " " THEN "_" ELSE c

\* the loop of sanitizeFilename from index i on: a character is kept when
\* allowedChars.indexOf finds it
RECURSIVE KeepAllowed(_, _)
KeepAllowed(sanitized, i) ==
    IF i >= Len(sanitized) THEN ""
    ELSE (IF indexOf(allowedChars, SpaceToUnderscore(charAt(sanitized, i)), 0) # -1
          THEN SpaceToUnderscore(charAt(sanitized, i)) ELSE "")
         \o KeepAllowed(sanitized, i + 1)

\* the fallback of sanitizeFilename for a name that keeps no character
OrSchedule(result) == IF result = "" THEN "schedule" ELSE result

sanitizeFilename(name) == OrSchedule(KeepAllowed(name, 0))

\* the names the clients of this model send
ClientNames == {"", "Veg 2", "Morning", "Veg 2: bloom & flush (week 3)"}

\* sanitizeFilename of the names of ClientNames, worked out once
SanitizedNames == [name \in ClientNames |-> sanitizeFilename(name)]

SanitizedOf(name, known) ==
    IF name \in DOMAIN known THEN known[name] ELSE sanitizeFilename(name)

\* generateUID with time() returning the seconds since the start of the clock
generateUID(name, now) ==
    substring(SanitizedOf(name, SanitizedNames), 0, 20) \o "_" \o ToString(now \div 1000)

\* createSchedule: [ok, schedule]
createSchedule(name, now) ==
    IF name = "" THEN [ok |-> FALSE, schedule |-> DefaultSchedule]
    ELSE LET newSchedule == [DefaultSchedule EXCEPT !.scheduleName = name,
                                                    !.scheduleUID = generateUID(name, now)]
         IN [ok |-> ScheduleIsValid(newSchedule), schedule |-> newSchedule]

(***************************************************************************)
(* The schedule request handlers of ApiRoutes.cpp                          *)
(***************************************************************************)
\* the JSON object {}: a field the object lacks is << >>, one it has is
\* <<value>>; an array it lacks is empty
EmptyObject ==
    [name |-> << >>, scheduleName |-> << >>, lightsOnTime |-> << >>, lightsOffTime |-> << >>,
     autopilotWindows |-> << >>, durationEvents |-> << >>, volumeEvents |-> << >>]

\* a request body of `size` bytes that is, or is not, a JSON document
Body(size, json, object) == [size |-> size, json |-> json] @@ object

\* the bodies clients send: a schedule with every field, whose name is longer
\* than a uid allows and whose events are out of order, one of each kind not
\* valid and one duration event running past midnight; {}; an empty name; a
\* body that is not JSON; one of more than 10 KB; and no body at all
Bodies ==
    LET settles == [doseVolume |-> 0, doseDuration |-> 0, settlingTime |-> 5]
    IN {Body(400, TRUE,
             [EmptyObject EXCEPT
                !.name = <<"Veg 2: bloom & flush (week 3)">>,
                !.scheduleName = <<"Veg 2">>,
                !.lightsOnTime = <<360>>,
                !.lightsOffTime = <<1140>>,
                !.autopilotWindows =
                   <<AutopilotWindow(100, 160, settles), AutopilotWindow(100, 100, settles),
                     AutopilotWindow(60, 120, settles)>>,
                !.durationEvents =
                   <<[startTime |-> 1439, duration |-> 90], [startTime |-> 200, duration |-> 0],
                     [startTime |-> 400, duration |-> 90]>>,
                !.volumeEvents =
                   <<[startTime |-> 300, doseVolume |-> 10],
                     [startTime |-> 100, doseVolume |-> 0],
                     [startTime |-> 30, doseVolume |-> 5]>>]),
        Body(2, TRUE, EmptyObject),
        Body(40, TRUE, [EmptyObject EXCEPT !.name = <<"">>, !.scheduleName = <<"">>]),
        Body(1, FALSE, EmptyObject),
        Body(20000, TRUE, [EmptyObject EXCEPT !.name = <<"Veg 2">>]),
        Body(0, FALSE, EmptyObject)}

NoBody == Body(0, FALSE, EmptyObject)

\* the uid query parameter: << >> when the request has none
UidParams == {<<"a">>, << >>}

ApiClients == {[ip |-> "10.0.0.1", ua |-> "1A"], [ip |-> "10.0.0.2", ua |-> "A"]}

ApiRequests(methods, bodies) ==
    {[isNull |-> FALSE, client |-> c, cookie |-> SessionCookie(k), method |-> m, uid |-> u, body |-> b] :
       c \in ApiClients, k \in Tokens \cup {""}, m \in methods, u \in UidParams, b \in bodies}

\* the storage outcomes met by the calls a handler makes: validateSession's
\* teardown, getLockInfo / isLocked, acquireLock, releaseLock, and the schedule store
IoOk == [teardown |-> FsOk, info |-> FsOk, acquire |-> FsOk, release |-> FsOk, sched |-> "ok"]

\* a failing load of the lock file
FsNoLoad == [load |-> FALSE, save |-> "ok"]

\* the outcomes that can make a difference to a request: those of the
\* teardown when validateSession refuses it, the successful ones alone when a
\* check made before any storage access ends it (pastChecks is false), and
\* those of `reached` otherwise
IoOutcomes(sessions, file, request, now, pastChecks, reached) ==
    IF validateSession(sessions, file, request, now, FsOk).found = ""
    THEN {[IoOk EXCEPT !.teardown = fs] : fs \in FsFor(CookieSessionId(request) \in DOMAIN sessions)}
    ELSE IF RoleRank(sessions[CookieSessionId(request)].userRole) < RoleRank("MANAGER") \/ ~pastChecks
    THEN {IoOk}
    ELSE reached

\* the outcomes each handler can meet once its checks are passed
\* (releaseLock is reached after a deleteSchedule that succeeded)
DeleteOutcomes ==
    {io \in {[IoOk EXCEPT !.info = i, !.release = r, !.sched = s] :
               i \in {FsOk, FsNoLoad}, r \in FsOutcomes, s \in SchedOutcomes \ {"read"}} :
       io.release = FsOk \/ io.sched = "ok"}

\* (releaseLock is reached after a loadSchedule that failed)
PutOutcomes ==
    {io \in {[IoOk EXCEPT !.info = i, !.acquire = a, !.release = r, !.sched = s] :
               i \in {FsOk, FsNoLoad}, a \in FsOutcomes,
               r \in FsOutcomes, s \in SchedOutcomes} :
       io.release = FsOk \/ io.sched = "read"}

PostOutcomes == {[IoOk EXCEPT !.sched = s] : s \in SchedOutcomes \ {"read"}}

LockPostOutcomes ==
    {[IoOk EXCEPT !.info = i, !.acquire = a] : i \in {FsOk, FsNoLoad}, a \in FsOutcomes}

LockDeleteOutcomes ==
    {[IoOk EXCEPT !.info = i, !.release = r] : i \in {FsOk, FsNoLoad}, r \in FsOutcomes}

\* what a handler leaves behind: the status it sent and the state afterwards
Reply(status, sessions, file, index, files) ==
    [status |-> status, sessions |-> sessions, file |-> file, index |-> index, files |-> files]

\* the AutopilotWindow the POST and PUT branches fill from one object of the
\* body's autopilotWindows array: doseDuration is not read and stays 0
WindowFromJson(apObj) == [apObj EXCEPT !.doseDuration = 0]

\* (int)ceil(duration / 60.0)
CeilMinutes(duration) == 0 - ((0 - duration) \div 60)

\* de.endTime = de.startTime + (int)ceil(de.duration / 60.0), cut to 1439
EndOfDuration(endTime) == IF endTime > 1439 THEN 1439 ELSE endTime

\* the DurationEvent the POST and PUT branches fill from one object of the
\* body's durationEvents array
DurationFromJson(durObj) ==
    DurationEvent(durObj.startTime, durObj.duration,
                  EndOfDuration(durObj.startTime + CeilMinutes(durObj.duration)))

\* the VolumeEvent they fill from one object of the volumeEvents array
VolumeFromJson(volObj) == VolumeEvent(volObj.startTime, volObj.doseVolume)

\* the Schedule the POST and PUT branches build from the JSON body: the
\* fields the body has replace those of `base`, the three vectors are filled
\* with the valid events of the body's arrays and sorted
ScheduleFromBody(base, scheduleName, body) ==
    [base EXCEPT !.scheduleName = scheduleName,
                 !.lightsOnTime = IF body.lightsOnTime = << >> THEN @ ELSE body.lightsOnTime[1],
                 !.lightsOffTime = IF body.lightsOffTime = << >> THEN @
                                   ELSE body.lightsOffTime[1],
                 !.autopilotWindows =
                    SortWindows(SelectSeq(MapSeq(body.autopilotWindows, WindowFromJson),
                                          AutopilotWindowIsValid)),
                 !.durationEvents =
                    SortEvents(<< >>, SelectSeq(MapSeq(body.durationEvents, DurationFromJson),
                                                DurationEventIsValid)),
                 !.volumeEvents =
                    SortEvents(<< >>, SelectSeq(MapSeq(body.volumeEvents, VolumeFromJson),
                                                VolumeEventIsValid))]

\* the JSON document handleGetSchedule sends for a schedule
ScheduleToJson(schedule) ==
    [scheduleName |-> schedule.scheduleName, scheduleUID |-> schedule.scheduleUID,
     lightsOnTime |-> schedule.lightsOnTime, lightsOffTime |-> schedule.lightsOffTime,
     autopilotWindows |->
        [i \in 1..Len(schedule.autopilotWindows) |->
           [startTime |-> schedule.autopilotWindows[i].startTime,
            endTime |-> schedule.autopilotWindows[i].endTime,
            doseVolume |-> schedule.autopilotWindows[i].doseVolume,
            settlingTime |-> schedule.autopilotWindows[i].settlingTime]],
     durationEvents |->
        [i \in 1..Len(schedule.durationEvents) |->
           [startTime |-> schedule.durationEvents[i].startTime,
            duration |-> schedule.durationEvents[i].duration,
            endTime |-> schedule.durationEvents[i].endTime]],
     volumeEvents |->
        [i \in 1..Len(schedule.volumeEvents) |->
           [startTime |-> schedule.volumeEvents[i].startTime,
            doseVolume |-> schedule.volumeEvents[i].doseVolume]]]

\* handleGetSchedule: the reply and, with status 200, the document sent
handleGetSchedule(sessions, file, index, files, request, now, io) ==
    LET v == validateSession(sessions, file, request, now, io.teardown)
        l == loadSchedule(files, request.uid[1], io.sched)
    IN IF v.found = ""
       THEN [body |-> << >>] @@ Reply(401, v.sessions, v.file, index, files)
       ELSE IF request.uid = << >>
       THEN [body |-> << >>] @@ Reply(400, v.sessions, file, index, files)
       ELSE IF ~l.ok
       THEN [body |-> << >>] @@ Reply(404, v.sessions, file, index, files)
       ELSE [body |-> <<ScheduleToJson(l.schedule)>>]
            @@ Reply(200, v.sessions, file, index, files)

\* getScheduleList: _scheduleIndex with lockedBy set for each entry from the
\* lock isLocked reports; loads[i] is the outcome of the load of the lock
\* file made for entry i
getScheduleList(index, file, loads) ==
    [i \in 1..Len(index) |->
       [index[i] EXCEPT !.lockedBy =
          LockedByOf(isLocked(file, "schedule_" \o index[i].scheduleUID, loads[i]))]]

\* handleGetSchedules: the reply, whose index is the list sent with status 200
handleGetSchedules(sessions, file, index, files, request, now, io, loads) ==
    LET v == validateSession(sessions, file, request, now, io.teardown)
    IN IF v.found = "" THEN Reply(401, v.sessions, v.file, index, files)
       ELSE Reply(200, v.sessions, file, getScheduleList(index, file, loads), files)

handleDeleteSchedule(sessions, file, index, files, request, now, io) ==
    LET v == validateSession(sessions, file, request, now, io.teardown)
    IN IF v.found = "" THEN Reply(401, v.sessions, v.file, index, files)
       ELSE
       LET session == v.sessions[v.found]
           uid == request.uid[1]
           resourceId == "schedule_" \o uid
           persistentLockLevel == getPersistentLockLevel(index, uid)
           lock == isLocked(file, resourceId, io.info)
           d == deleteSchedule(index, files, uid, io.sched)
       IN IF RoleRank(session.userRole) < RoleRank("MANAGER")
          THEN Reply(403, v.sessions, file, index, files)
          ELSE IF request.uid = << >> THEN Reply(400, v.sessions, file, index, files)
          ELSE IF persistentLockLevel = 1 \/ persistentLockLevel = 2
               THEN Reply(403, v.sessions, file, index, files)
          ELSE IF persistentLockLevel < 0 THEN Reply(404, v.sessions, file, index, files)
          ELSE IF lock.locked /\ lock.info[1].sessionId # session.sessionId
               THEN Reply(409, v.sessions, file, index, files)
          ELSE IF d.ok
               THEN Reply(200, v.sessions,
                          releaseLock(file, resourceId, session.sessionId, io.release).file,
                          d.index, d.files)
          ELSE Reply(500, v.sessions, file, d.index, d.files)

\* the PUT branch without the lock check and the implicit acquire
SchedulePutNoLock(v, file, index, files, request, now, io) ==
    LET session == v.sessions[v.found]
        uid == request.uid[1]
        resourceId == "schedule_" \o uid
        persistentLockLevel == getPersistentLockLevel(index, uid)
        currentLockInfo == isLocked(file, resourceId, io.info)
        hasImplicitLock == /\ currentLockInfo.locked
                           /\ currentLockInfo.info[1].sessionId = session.sessionId
        a == [ok |-> TRUE, file |-> file]
        l == loadSchedule(files, uid, io.sched)
        updatedSchedule ==
            ScheduleFromBody(l.schedule,
                             IF request.body.scheduleName = << >> THEN l.schedule.scheduleName
                             ELSE request.body.scheduleName[1],
                             request.body)
        s == saveSchedule(index, files, updatedSchedule, io.sched)
    IN IF request.uid = << >> THEN Reply(400, v.sessions, file, index, files)
       ELSE IF persistentLockLevel = 1 \/ persistentLockLevel = 2
            THEN Reply(403, v.sessions, file, index, files)
       ELSE IF persistentLockLevel < 0 THEN Reply(404, v.sessions, file, index, files)
       ELSE IF ~a.ok
            THEN Reply(IF isLocked(a.file, resourceId, io.info).locked THEN 409 ELSE 500,
                       v.sessions, a.file, index, files)
       ELSE IF ~l.ok
            THEN Reply(500, v.sessions,
                       releaseLock(a.file, resourceId, session.sessionId, io.release).file,
                       index, files)
       ELSE Reply(IF s.ok THEN 200 ELSE 500, v.sessions, a.file, s.index, s.files)

\* the PUT branch of handleSchedulePostPutBody once the JSON body is parsed
SchedulePut(v, file, index, files, request, now, io) ==
    LET session == v.sessions[v.found]
        uid == request.uid[1]
        resourceId == "schedule_" \o uid
        persistentLockLevel == getPersistentLockLevel(index, uid)
        currentLockInfo == isLocked(file, resourceId, io.info)
        hasImplicitLock == /\ currentLockInfo.locked
                           /\ currentLockInfo.info[1].sessionId = session.sessionId
        a == IF hasImplicitLock THEN [ok |-> TRUE, file |-> file]
             ELSE acquireLock(file, resourceId, "EDITING_SCHEDULE", session, now, io.acquire)
        l == loadSchedule(files, uid, io.sched)
        updatedSchedule ==
            ScheduleFromBody(l.schedule,
                             IF request.body.scheduleName = << >> THEN l.schedule.scheduleName
                             ELSE request.body.scheduleName[1],
                             request.body)
        s == saveSchedule(index, files, updatedSchedule, io.sched)
    IN IF request.uid = << >> THEN Reply(400, v.sessions, file, index, files)
       ELSE IF persistentLockLevel = 1 \/ persistentLockLevel = 2
            THEN Reply(403, v.sessions, file, index, files)
       ELSE IF persistentLockLevel < 0 THEN Reply(404, v.sessions, file, index, files)
       ELSE IF ~a.ok
            THEN Reply(IF isLocked(a.file, resourceId, io.info).locked THEN 409 ELSE 500,
                       v.sessions, a.file, index, files)
       ELSE IF ~l.ok
            THEN Reply(500, v.sessions,
                       releaseLock(a.file, resourceId, session.sessionId, io.release).file,
                       index, files)
       ELSE Reply(IF s.ok THEN 200 ELSE 500, v.sessions, a.file, s.index, s.files)

\* the POST branch of handleSchedulePostPutBody once the JSON body is parsed
SchedulePost(v, file, index, files, request, now, io) ==
    LET c == createSchedule(request.body.name[1], now)
        s == saveSchedule(index, files,
                          ScheduleFromBody([c.schedule EXCEPT !.lightsOnTime = 0,
                                                               !.lightsOffTime = 0],
                                           c.schedule.scheduleName, request.body),
                          io.sched)
    IN IF request.body.name = << >> THEN Reply(400, v.sessions, file, index, files)
       ELSE IF request.body.name[1] = "" THEN Reply(400, v.sessions, file, index, files)
       ELSE IF ~c.ok THEN Reply(500, v.sessions, file, index, files)
       ELSE Reply(IF s.ok THEN 201 ELSE 500, v.sessions, file, s.index, s.files)

\* handleSchedulePostPutBody for a body that arrives in one chunk
handleSchedulePostPutBody(sessions, file, index, files, request, now, io) ==
    IF request.body.size > 10240 THEN Reply(413, sessions, file, index, files)
    ELSE
    LET v == validateSession(sessions, file, request, now, io.teardown)
    IN IF v.found = "" THEN Reply(401, v.sessions, v.file, index, files)
       ELSE IF RoleRank(v.sessions[v.found].userRole) < RoleRank("MANAGER")
            THEN Reply(403, v.sessions, file, index, files)
       ELSE IF ~request.body.json THEN Reply(400, v.sessions, file, index, files)
       ELSE IF request.method = "POST"
            THEN SchedulePost(v, file, index, files, request, now, io)
       ELSE IF request.method = "PUT"
            THEN SchedulePut(v, file, index, files, request, now, io)
       ELSE Reply(405, v.sessions, file, index, files)

\* POST and PUT /api/schedule as registerRoutes sets them up: the request
\* handler does nothing and the server passes the body, when there is one, to
\* handleSchedulePostPutBody; status 0 stands for no response sent
SchedulePostPutRoute(sessions, file, index, files, request, now, io) ==
    IF request.body.size = 0 THEN Reply(0, sessions, file, index, files)
    ELSE handleSchedulePostPutBody(sessions, file, index, files, request, now, io)

handleScheduleLockPost(sessions, file, index, files, request, now, io) ==
    LET v == validateSession(sessions, file, request, now, io.teardown)
    IN IF v.found = "" THEN Reply(401, v.sessions, v.file, index, files)
       ELSE
       LET session == v.sessions[v.found]
           resourceId == "schedule_" \o request.uid[1]
           persistentLockLevel == getPersistentLockLevel(index, request.uid[1])
           a == acquireLock(file, resourceId, "EDITING_SCHEDULE", session, now, io.acquire)
       IN IF RoleRank(session.userRole) < RoleRank("MANAGER")
          THEN Reply(403, v.sessions, file, index, files)
          ELSE IF request.uid = << >> THEN Reply(400, v.sessions, file, index, files)
          ELSE IF persistentLockLevel = 1 \/ persistentLockLevel = 2
               THEN Reply(403, v.sessions, file, index, files)
          ELSE IF persistentLockLevel < 0 THEN Reply(404, v.sessions, file, index, files)
          ELSE IF a.ok THEN Reply(200, v.sessions, a.file, index, files)
          ELSE Reply(IF isLocked(a.file, resourceId, io.info).locked THEN 409 ELSE 500,
                     v.sessions, a.file, index, files)

handleScheduleLockDelete(sessions, file, index, files, request, now, io) ==
    LET v == validateSession(sessions, file, request, now, io.teardown)
    IN IF v.found = "" THEN Reply(401, v.sessions, v.file, index, files)
       ELSE
       LET session == v.sessions[v.found]
           resourceId == "schedule_" \o request.uid[1]
           r == releaseLock(file, resourceId, session.sessionId, io.release)
       IN IF RoleRank(session.userRole) < RoleRank("MANAGER")
          THEN Reply(403, v.sessions, file, index, files)
          ELSE IF request.uid = << >> THEN Reply(400, v.sessions, file, index, files)
          ELSE IF r.ok THEN Reply(200, v.sessions, r.file, index, files)
          ELSE Reply(IF isLocked(r.file, resourceId, io.info).locked THEN 403 ELSE 400,
                     v.sessions, r.file, index, files)

\* a handler has run: its reply becomes the state and the response is noted
Respond(handler, request, r) ==
    /\ activeSessions' = r.sessions
    /\ lockFile' = r.file
    /\ scheduleIndex' = r.index
    /\ scheduleFiles' = r.files
    /\ resp' = [handler |-> handler, status |-> r.status, sid |-> CookieSessionId(request)]
    /\ UNCHANGED <<clock, sessLastCleanupTime, lockLastCleanupTime, issued, ret,
                   outVars, raceVars, draftVars>>

DeleteIo(request) ==
    IoOutcomes(activeSessions, lockFile, request, clock,
               request.uid # << >> /\ getPersistentLockLevel(scheduleIndex, request.uid[1]) = 0,
               DeleteOutcomes)

\* a body of no byte or of more than 10 KB ends the request before any
\* storage access
PutIo(request) ==
    IF request.body.size = 0 \/ request.body.size > 10240 THEN {IoOk}
    ELSE IoOutcomes(activeSessions, lockFile, request, clock,
                    request.body.json /\ request.uid # << >>
                      /\ getPersistentLockLevel(scheduleIndex, request.uid[1]) = 0,
                    PutOutcomes)

PostIo(request) ==
    IF request.body.size = 0 \/ request.body.size > 10240 THEN {IoOk}
    ELSE IoOutcomes(activeSessions, lockFile, request, clock,
                    request.body.json /\ request.body.name \notin {<< >>, <<"">>},
                    PostOutcomes)

\* handleGetSchedules has passed its checks once the session is accepted
GetSchedulesIo(request) ==
    IoOutcomes(activeSessions, lockFile, request, clock, TRUE, {IoOk})

LockPostIo(request) ==
    IoOutcomes(activeSessions, lockFile, request, clock,
               request.uid # << >> /\ getPersistentLockLevel(scheduleIndex, request.uid[1]) = 0,
               LockPostOutcomes)

LockDeleteIo(request) ==
    IoOutcomes(activeSessions, lockFile, request, clock, request.uid # << >>,
               LockDeleteOutcomes)

DeleteSchedule ==
    \E request \in ApiRequests({"DELETE"}, {NoBody}) :
      \E r \in {handleDeleteSchedule(activeSessions, lockFile, scheduleIndex, scheduleFiles,
                                     request, clock, io) : io \in DeleteIo(request)} :
        Respond("DELETE /api/schedule", request, r)

PutSchedule ==
    \E request \in ApiRequests({"PUT"}, Bodies) :
      \E r \in {SchedulePostPutRoute(activeSessions, lockFile, scheduleIndex, scheduleFiles,
                                     request, clock, io) : io \in PutIo(request)} :
        Respond("PUT /api/schedule", request, r)

\* clients create schedules while the store holds fewer than MaxStored
PostSchedule ==
    /\ Cardinality(ScheduleUids(scheduleFiles)) < MaxStored
    /\ \E request \in ApiRequests({"POST"}, Bodies) :
         /\ request.uid = << >>
         /\ \E r \in {SchedulePostPutRoute(activeSessions, lockFile, scheduleIndex, scheduleFiles,
                                           request, clock, io) : io \in PostIo(request)} :
              Respond("POST /api/schedule", request, r)

GetSchedules ==
    \E request \in ApiRequests({"GET"}, {NoBody}) :
      /\ request.uid = << >>
      /\ \E r \in {handleGetSchedules(activeSessions, lockFile, scheduleIndex, scheduleFiles,
                                      request, clock, io, loads) :
                     io \in GetSchedulesIo(request),
                     loads \in [1..Len(scheduleIndex) -> {FsOk, FsNoLoad}]} :
           Respond("GET /api/schedules", request, r)

ScheduleLockPost ==
    \E request \in ApiRequests({"POST"}, {NoBody}) :
      \E r \in {handleScheduleLockPost(activeSessions, lockFile, scheduleIndex, scheduleFiles,
                                       request, clock, io) : io \in LockPostIo(request)} :
        Respond("POST /api/schedule/lock", request, r)

ScheduleLockDelete ==
    \E request \in ApiRequests({"DELETE"}, {NoBody}) :
      \E r \in {handleScheduleLockDelete(activeSessions, lockFile, scheduleIndex, scheduleFiles,
                                         request, clock, io) : io \in LockDeleteIo(request)} :
        Respond("DELETE /api/schedule/lock", request, r)

\* handleDeleteSchedule on a handler task up to its isLocked test, for a
\* request that passes every test: the session's heartbeat is refreshed and
\* the task goes on to deleteSchedule
DeleteScheduleCheck(task) ==
    /\ acq[task].pc = "idle"
    /\ \E request \in ApiRequests({"DELETE"}, {NoBody}) :
         \E r \in {handleDeleteSchedule(activeSessions, lockFile, scheduleIndex, scheduleFiles,
                                          request, clock, IoOk)} :
           /\ r.status \in {200, 500}
           /\ activeSessions' = r.sessions
           /\ acq' = [acq EXCEPT ![task] =
                        [pc |-> "checked", resourceId |-> "schedule_" \o request.uid[1],
                         sessionId |-> CookieSessionId(request), locks |-> << >>, ok |-> FALSE]]
    /\ UNCHANGED <<clock, sessLastCleanupTime, lockFile, lockLastCleanupTime, issued, ret,
                   outVars, sweep, schedVars>>

\* the uid a handler task past the isLocked test works on
CheckedUid(task) ==
    CHOOSE uid \in {u[1] : u \in UidParams \ {<< >>}} : "schedule_" \o uid = acq[task].resourceId

\* what session->sessionId reads after deleteSchedule: the id of the task's
\* session while the table still holds it.  Once another task has erased the
\* session the pointer dangles and the read is undefined: it yields the old
\* id, any other string, or ends in a reset ("reset" is no session id)
SessionIdRead(task) ==
    IF acq[task].sessionId \in DOMAIN activeSessions THEN {acq[task].sessionId}
    ELSE {acq[task].sessionId, "", "reset"} \cup Tokens

\* the storage outcomes deleteSchedule can meet for a uid
DeleteStoreOutcomes(uid) ==
    IF uid \in ScheduleUids(scheduleFiles) THEN SchedOutcomes \ {"read"} ELSE {"ok"}

\* handleDeleteSchedule from deleteSchedule to the response
DeleteScheduleCommit(task) ==
    /\ acq[task].pc = "checked"
    /\ \E outcome \in DeleteStoreOutcomes(CheckedUid(task)) :
         \E d \in {deleteSchedule(scheduleIndex, scheduleFiles, CheckedUid(task), outcome)} :
           \/ /\ ~d.ok
              /\ scheduleIndex' = d.index
              /\ scheduleFiles' = d.files
              /\ resp' = [handler |-> "DELETE /api/schedule", status |-> 500,
                          sid |-> acq[task].sessionId]
              /\ UNCHANGED <<clock, activeSessions, sessLastCleanupTime, lockFile,
                             lockLastCleanupTime, ret>>
           \/ /\ d.ok
              /\ \E sessionId \in SessionIdRead(task) \ {"reset"}, fs \in FsOutcomes :
                   lockFile' = releaseLock(lockFile, acq[task].resourceId, sessionId, fs).file
              /\ scheduleIndex' = d.index
              /\ scheduleFiles' = d.files
              /\ resp' = [handler |-> "DELETE /api/schedule", status |-> 200,
                          sid |-> acq[task].sessionId]
              /\ UNCHANGED <<clock, activeSessions, sessLastCleanupTime,
                             lockLastCleanupTime, ret>>
           \/ /\ d.ok
              /\ "reset" \in SessionIdRead(task)
              /\ \E b \in {begin(d.files, lockFile, "ok")} :
                   scheduleIndex' = b.index /\ scheduleFiles' = b.files
              /\ clock' = 0
              /\ activeSessions' = NoSessions
              /\ sessLastCleanupTime' = 0
              /\ lockLastCleanupTime' = 0
              /\ ret' = Call("restart", TRUE, "", "", 0)
              /\ UNCHANGED <<lockFile, resp>>
    /\ acq' = [acq EXCEPT ![task] = AcqIdle]
    /\ UNCHANGED <<issued, outVars, sweep, draftVars>>

\* handleLogin creating the session of a user of any role
ApiAccounts == {[username |-> "alice", role |-> "MANAGER"],
                [username |-> "carol", role |-> "VIEWER"]}

Login ==
    \E id \in FreshIds, a \in ApiAccounts, c \in LoginClients :
      /\ CreateSessionCall(id, a, c)
      /\ SessionIsValid(createSession(activeSessions, id, a.username, a.role,
                                      [isNull |-> FALSE, client |-> c, cookie |-> ""],
                                      clock).session)
      /\ UNCHANGED <<ret, outVars, raceVars, schedVars>>

TickApi == Advance(MaxApiTicks) /\ UNCHANGED <<ret, outVars, raceVars, schedVars>>

\* the requests of a client that logs in as owner, creates the schedule
\* "Morning", updates it with one autopilot window from minute 60 to minute
\* 120, reads it and deletes it.  The window is sent without dosing fields,
\* with a settling time, or with a dose volume and a dose duration.
ScenarioWindows ==
    {AutopilotWindow(60, 120, [doseVolume |-> 0, doseDuration |-> 0, settlingTime |-> 0]),
     AutopilotWindow(60, 120, [doseVolume |-> 0, doseDuration |-> 0, settlingTime |-> 5]),
     AutopilotWindow(60, 120, [doseVolume |-> 10, doseDuration |-> 30, settlingTime |-> 0])}

MorningBody == Body(18, TRUE, [EmptyObject EXCEPT !.name = <<"Morning">>])

WindowBody(w) == Body(60, TRUE, [EmptyObject EXCEPT !.autopilotWindows = <<w>>])

ScenarioRequest(cookie, method, uid, body) ==
    [isNull |-> FALSE, client |-> CHOOSE c \in LoginClients : TRUE, cookie |-> SessionCookie(cookie),
     method |-> method, uid |-> uid, body |-> body]

\* the uids a client of the scenario asks for: those stored and one that is not
ScenarioUids == {<<uid>> : uid \in ScheduleUids(scheduleFiles) \cup {"X"}}

ScenarioLogin ==
    \E id \in FreshIds, a \in Accounts, c \in LoginClients :
      /\ CreateSessionCall(id, a, c)
      /\ SessionIsValid(createSession(activeSessions, id, a.username, a.role,
                                      [isNull |-> FALSE, client |-> c, cookie |-> ""],
                                      clock).session)
      /\ UNCHANGED <<ret, outVars, raceVars, schedVars>>

ScenarioPost ==
    /\ Cardinality(ScheduleUids(scheduleFiles)) < MaxStored
    /\ \E cookie \in Tokens :
         LET request == ScenarioRequest(cookie, "POST", << >>, MorningBody)
         IN \E r \in {SchedulePostPutRoute(activeSessions, lockFile, scheduleIndex, scheduleFiles,
                                           request, clock, IoOk)} :
              Respond("POST /api/schedule", request, r)

ScenarioPut ==
    \E cookie \in Tokens, uid \in ScenarioUids, w \in ScenarioWindows :
      LET request == ScenarioRequest(cookie, "PUT", uid, WindowBody(w))
      IN \E r \in {SchedulePostPutRoute(activeSessions, lockFile, scheduleIndex, scheduleFiles,
                                        request, clock, IoOk)} :
           Respond("PUT /api/schedule", request, r)

\* `added` keeps the document a GET sent
ScenarioGet ==
    \E cookie \in Tokens, uid \in ScenarioUids :
      LET request == ScenarioRequest(cookie, "GET", uid, NoBody)
          r == handleGetSchedule(activeSessions, lockFile, scheduleIndex, scheduleFiles,
                                 request, clock, IoOk)
      IN /\ activeSessions' = r.sessions
         /\ lockFile' = r.file
         /\ resp' = [handler |-> "GET /api/schedule", status |-> r.status, sid |-> cookie]
         /\ added' = [kind |-> "get", event |-> r.body, ok |-> r.status = 200]
         /\ UNCHANGED <<clock, sessLastCleanupTime, lockLastCleanupTime, issued, ret,
                        outVars, raceVars, scheduleIndex, scheduleFiles, draft>>

ScenarioDelete ==
    \E cookie \in Tokens, uid \in ScenarioUids :
      LET request == ScenarioRequest(cookie, "DELETE", uid, NoBody)
      IN \E r \in {handleDeleteSchedule(activeSessions, lockFile, scheduleIndex, scheduleFiles,
                                        request, clock, IoOk)} :
           Respond("DELETE /api/schedule", request, r)

\* no schedule stored and no schedule request handled yet
NoResponse == [handler |-> "", status |-> 0, sid |-> ""]

NoScheduleFiles == [uid \in {} |-> DefaultSchedule]

InitNoSchedules ==
    /\ scheduleIndex = << >>
    /\ scheduleFiles = NoScheduleFiles
    /\ resp = NoResponse

\* the state after begin() found the file of schedule "a"
InitSchedules ==
    LET b == begin([uid \in {"a"} |-> <<StoredSchedule>>], << >>, "ok")
    IN /\ scheduleIndex = b.index
       /\ scheduleFiles = b.files
       /\ resp = NoResponse

(***************************************************************************)
(* Specifications                                                          *)
(***************************************************************************)
\* the state after setup() with the board configured as one of cfgs
InitWith(cfgs) ==
    InitLock /\ InitOut(cfgs) /\ InitRace /\ InitNoSchedules /\ InitDraft({DefaultSchedule})

\* acquireLock on a handler task while the loop task runs cleanupExpiredLocks
TickSweepRace == Advance(MaxLockTicks) /\ UNCHANGED <<ret, outVars, raceVars, schedVars>>

NextSweepRace ==
    \/ TickSweepRace
    \/ AcquireLoad("handler1")
    \/ AcquireSave("handler1")
    \/ AcquireReturn("handler1")
    \/ SweepRead
    \/ SweepLoad
    \/ SweepSave

SpecSweepRace == InitWith({DefaultIOConfig}) /\ [][NextSweepRace]_vars

\* validateAndAddEvent called again and again on one Schedule object
InitOverlap ==
    InitLock /\ InitOut({DefaultIOConfig}) /\ InitRace /\ InitNoSchedules
      /\ InitDraft(InitialDrafts)

SpecOverlap == InitOverlap /\ [][ValidateAndAddEvent]_vars

\* a caller building a schedule with the three validateAndAdd functions
InitBuild ==
    InitLock /\ InitOut({DefaultIOConfig}) /\ InitRace /\ InitNoSchedules /\ InitEvents

NextBuild ==
    \/ ValidateAndAddDurationEvents
    \/ ValidateAndAddVolumeEvents
    \/ ValidateAndAddWindow

SpecBuild == InitBuild /\ [][NextBuild]_vars

\* the schedule request handlers called one at a time by logged-in clients
NextApi ==
    \/ TickApi
    \/ Login
    \/ GetSchedules
    \/ DeleteSchedule
    \/ PutSchedule
    \/ PostSchedule
    \/ ScheduleLockPost
    \/ ScheduleLockDelete

InitApi ==
    InitLock /\ InitOut({DefaultIOConfig}) /\ InitRace /\ InitSchedules
      /\ InitDraft({DefaultSchedule})

SpecApi == InitApi /\ [][NextApi]_vars

\* the ScheduleManager on its own: schedules saved, loaded and deleted, and
\* the controller restarted
\* the state after begin() on one of the disks
InitStoreFiles ==
    \E disk \in Disks :
      /\ scheduleIndex = begin(disk, << >>, "ok").index
      /\ scheduleFiles = begin(disk, << >>, "ok").files
      /\ resp = NoResponse
      /\ draft = DefaultSchedule
      /\ added = NoStoreCall

InitStore == InitLock /\ InitOut({DefaultIOConfig}) /\ InitRace /\ InitStoreFiles

NextStore ==
    \/ SaveScheduleCall
    \/ LoadScheduleCall
    \/ DeleteScheduleCall
    \/ Begin

SpecStore == InitStore /\ [][NextStore]_vars

\* a reset of the controller: setup() runs again with an empty session table
\* and millis() back at 0, on the lock file the flash still holds
\* (LockManager::begin creates the file only when it is missing)
Restart ==
    /\ clock' = 0
    /\ activeSessions' = NoSessions
    /\ sessLastCleanupTime' = 0
    /\ lockLastCleanupTime' = 0
    /\ ret' = Call("restart", TRUE, "", "", 0)
    /\ UNCHANGED <<lockFile, issued, outVars, raceVars, schedVars>>

\* sessions and locks over resets of the controller
NextRestart ==
    \/ Restart
    \/ Tick
    \/ CreateSession
    \/ AcquireLock
    \/ ValidateSession
    \/ InvalidateSession
    \/ CleanupExpiredSessions

InitRestart == InitWith({DefaultIOConfig})

SpecRestart == InitRestart /\ [][NextRestart]_vars

\* one client after another working through create, update, read and delete
\* on a controller that starts with no schedule stored
InitScenarioFiles ==
    /\ scheduleIndex = begin([uid \in {} |-> << >>], << >>, "ok").index
    /\ scheduleFiles = begin([uid \in {} |-> << >>], << >>, "ok").files
    /\ resp = NoResponse
    /\ draft = DefaultSchedule
    /\ added = NoStoreCall

InitScenario == InitLock /\ InitOut({DefaultIOConfig}) /\ InitRace /\ InitScenarioFiles

NextScenario ==
    \/ TickApi
    \/ ScenarioLogin
    \/ ScenarioPost
    \/ ScenarioPut
    \/ ScenarioGet
    \/ ScenarioDelete

SpecScenario == InitScenario /\ [][NextScenario]_vars

\* the same handlers on a persistently locked schedule

\* The LockManager on its own: its five entry points called one at a time
NextLock ==
    \/ TickLock
    \/ AcquireLockGiven
    \/ ReleaseLock
    \/ ReleaseLocksForSession
    \/ CleanupExpiredLocks

SpecLock == InitWith({DefaultIOConfig}) /\ [][NextLock]_vars

\* SessionManager and LockManager together
NextSess ==
    \/ Tick
    \/ CreateSession
    \/ ValidateSession
    \/ InvalidateSession
    \/ CleanupExpiredSessions
    \/ AcquireLock

Spec == InitWith({DefaultIOConfig}) /\ [][NextSess]_vars

\* the same calls with millis() read at finer steps, for the cleanup interval
NextSweep ==
    \/ TickSweep
    \/ ShortTick
    \/ CreateSession
    \/ ValidateSession
    \/ CleanupExpiredSessions
    \/ AcquireLock

SpecSweep == InitWith({DefaultIOConfig}) /\ [][NextSweep]_vars

\* validateSession on a request handler task while the loop task is inside
\* cleanupExpiredSessions, where it stays for milliseconds only
NextSessionSweep ==
    \/ sweep.pc = "idle" /\ TickSweep
    \/ MsTick
    \/ CreateSession
    \/ ValidateSession
    \/ AcquireLockStored
    \/ SessionSweepRead
    \/ SessionSweepScan
    \/ SessionSweepFind
    \/ SessionSweepReleaseLoad
    \/ SessionSweepReleaseSave
    \/ SessionSweepErase
    \/ SessionSweepEraseFreed

InitSessionSweep == InitWith({DefaultIOConfig})

SpecSessionSweep == InitSessionSweep /\ [][NextSessionSweep]_vars

\* a DELETE of a schedule on one handler task while other requests are served
NextDeleteRace ==
    \/ TickApi
    \/ Login
    \/ ScheduleLockPost
    \/ ScheduleLockDelete
    \/ DeleteSchedule
    \/ DeleteScheduleCheck("handler1")
    \/ DeleteScheduleCommit("handler1")

InitDeleteRace == InitApi

SpecDeleteRace == InitDeleteRace /\ [][NextDeleteRace]_vars

\* acquireLock on two handler tasks, interleaved at its file accesses
NextRace ==
    \/ TickRace
    \/ \E task \in HandlerTasks : AcquireLoad(task)
    \/ \E task \in HandlerTasks : AcquireSave(task)
    \/ \E task \in HandlerTasks : AcquireReturn(task)

SpecRace == InitWith({DefaultIOConfig}) /\ [][NextRace]_vars

\* the OutputPointManager: clients, the command processor task and timer tasks
\* a client that submits MaxSubmits commands of any kind
SendCommand == \E command \in ClientCommands :
                 submits < MaxSubmits /\ MayArm(command) /\ SendCommandCall(command)

\* a client that, like the test task of main.cpp, never stops submitting
SendCommandFlood == \E command \in FloodCommands :
                      MayArm(command) /\ SendCommandCall(command)

NextOut ==
    \/ SendCommand
    \/ WorkerReceive
    \/ WorkerCheck
    \/ WorkerDelete
    \/ WorkerClear
    \/ WorkerCreate
    \/ \E task \in DOMAIN timerTasks : TimerExpire(task)
    \/ \E task \in DOMAIN timerTasks : TimerClear(task)
    \/ \E task \in DOMAIN timerTasks : TimerExit(task)

SpecOut == InitWith(IOConfigs) /\ [][NextOut]_vars

NextFlood ==
    \/ SendCommandFlood
    \/ WorkerReceive
    \/ WorkerCheck
    \/ WorkerDelete
    \/ WorkerClear
    \/ WorkerCreate
    \/ \E task \in DOMAIN timerTasks : TimerExpire(task)
    \/ \E task \in DOMAIN timerTasks : TimerClear(task)
    \/ \E task \in DOMAIN timerTasks : TimerExit(task)

SpecFlood == InitWith({IOConfig("ShiftRegister", "DirectRelay_", 0)}) /\ [][NextFlood]_vars

\* a caller that never stops submitting BusyCommands
SendCommandBusy == \E command \in BusyCommands :
                     MayArm(command) /\ SendCommandCall(command)

NextBusy ==
    \/ SendCommandBusy
    \/ WorkerReceive
    \/ WorkerCheck
    \/ WorkerDelete
    \/ WorkerClear
    \/ WorkerCreate
    \/ \E task \in DOMAIN timerTasks : TimerExpire(task)
    \/ \E task \in DOMAIN timerTasks : TimerClear(task)
    \/ \E task \in DOMAIN timerTasks : TimerExit(task)

SpecBusy == InitWith({IOConfig("ShiftRegister", "DirectRelay_", 0)}) /\ [][NextBusy]_vars

\* a client that arms timers and never switches a relay off itself: its
\* commands are TURN_ON_TIMED, and its last one is a plain TURN_ON of
\* DirectRelay_0.  Every TURN_OFF in the queue then comes from a timer task.
TimedCommands ==
    {OutputCommand(p, "TURN_ON_TIMED", TimedMs) : p \in ClientPointIds}

LastOnCommand == OutputCommand("DirectRelay_0", "TURN_ON", 0)

SendTimedThenOn ==
    /\ submits < MaxSubmits
    /\ \E command \in (IF submits < MaxSubmits - 1 THEN TimedCommands ELSE {LastOnCommand}) :
         MayArm(command) /\ SendCommandCall(command)

NextTimers ==
    \/ SendTimedThenOn
    \/ WorkerReceive
    \/ WorkerCheck
    \/ WorkerDelete
    \/ WorkerClear
    \/ WorkerCreate
    \/ \E task \in DOMAIN timerTasks : TimerExpire(task)
    \/ \E task \in DOMAIN timerTasks : TimerClear(task)
    \/ \E task \in DOMAIN timerTasks : TimerExit(task)

InitTimers == InitWith({IOConfig("ShiftRegister", "DirectRelay_", 0)})

SpecTimers == InitTimers /\ [][NextTimers]_vars

\* the command processor task and the timer tasks as the scheduler sees them
Worker == WorkerReceive \/ WorkerCheck \/ WorkerDelete \/ WorkerClear \/ WorkerCreate

TimerTask(task) ==
    /\ task \in DOMAIN timerTasks
    /\ (TimerExpire(task) \/ TimerClear(task) \/ TimerExit(task))

\* FreeRTOS runs every ready task of a priority in turn: the command processor,
\* the timer tasks and the submitting task, all of priority 1, keep being
\* scheduled, and a vTaskDelay comes to its end
SpecFloodFair ==
    /\ SpecBusy
    /\ WF_vars(SendCommandBusy)
    /\ WF_vars(Worker)
    /\ \A task \in 1..MaxTimers : WF_vars(TimerTask(task))

(***************************************************************************)
(* Properties                                                              *)
(***************************************************************************)
\* the persisted lock set `file` holds a lock on resourceId whose holder is not sessionId
HeldByOther(file, resourceId, sessionId) ==
    \E i \in 1..Len(file) : file[i].resourceId = resourceId /\ file[i].sessionId # sessionId

\* the persisted lock set `file` holds no lock whose holder is sessionId
NoLockOf(file, sessionId) == \A i \in 1..Len(file) : file[i].sessionId # sessionId

\* C1 - lock exclusion: an acquireLock call for a resource on which the lock
\* file holds a lock of another session returns false and leaves the lock
\* file exactly as it was.
C1_LockExclusion ==
    [][(ret'.op = "acquireLock" /\ HeldByOther(lockFile, ret'.res, ret'.sid))
         => (~ret'.ok /\ lockFile' = lockFile)]_vars

\* an acquireLock by one session has just been refused on a resource another session holds
C1_Witness ==
    /\ ret.op = "acquireLock"
    /\ ~ret.ok
    /\ ret.sid \in Tokens
    /\ ret.res # ""
    /\ HeldByOther(lockFile, ret.res, ret.sid)

\* C2 - session teardown releases locks: whenever a session leaves the
\* session table, by whatever path, the lock file holds no lock of that
\* session right after the step.
C2_TeardownReleasesLocks ==
    [][\A id \in DOMAIN activeSessions :
         id \notin DOMAIN activeSessions' => NoLockOf(lockFile', id)]_vars

\* C6 - validateSession fails closed: no session is returned when the token,
\* the value of the request's session_id cookie, is absent, unknown, expired
\* or presented with another fingerprint; an expired or mismatching session is
\* gone from the table afterwards; an absent or unknown token leaves the
\* session table and the lock file unchanged.
C6_ValidateSessionFailsClosed ==
    \A request \in Requests \cup {NullRequest}, fs \in FsOutcomes :
      LET token == SessionCookieValue(request)
          r == validateSession(activeSessions, lockFile, request, clock, fs)
          absent == request.isNull \/ token = ""
          known == ~absent /\ token \in DOMAIN activeSessions
          expired == known /\ clock - activeSessions[token].lastHeartbeat > SESSION_TIMEOUT_MS
          mismatch == known /\ activeSessions[token].fingerprint # generateFingerprint(request)
      IN /\ ~known => /\ r.found = ""
                      /\ r.sessions = activeSessions
                      /\ r.file = lockFile
         /\ (expired \/ mismatch) => /\ r.found = ""
                                     /\ token \notin DOMAIN r.sessions

\* C7 - at most one lock per resource: the lock file never holds two locks
\* with the same resourceId when the LockManager's calls run one at a time.
C7_OneLockPerResource ==
    \A i, j \in 1..Len(lockFile) :
      lockFile[i].resourceId = lockFile[j].resourceId => i = j

\* a session has just re-acquired a resource it held while another resource is locked too
C7_Witness ==
    /\ ret.op = "acquireLock"
    /\ ret.ok
    /\ Len(lockFile) = 2
    /\ lockFile[2].resourceId = ret.res
    /\ lockFile[2].timestamp > lockFile[1].timestamp
    /\ lockFile[1].timestamp > TickMs

\* the lock a handler task asked for is in the lock file
LockPresent(task) ==
    \E i \in 1..Len(lockFile) :
      /\ lockFile[i].resourceId = acq[task].resourceId
      /\ lockFile[i].sessionId = acq[task].sessionId

\* C8 - no successful acquire is lost: when two handler tasks have both
\* returned true from acquireLock, for different sessions and different
\* resources, both locks are in the lock file.
C8_NoLostAcquire ==
    \A t1, t2 \in HandlerTasks :
      (/\ acq[t1].pc = "returned" /\ acq[t1].ok
       /\ acq[t2].pc = "returned" /\ acq[t2].ok
       /\ acq[t1].sessionId # acq[t2].sessionId
       /\ acq[t1].resourceId # acq[t2].resourceId)
        => (LockPresent(t1) /\ LockPresent(t2))

\* the timer tasks alive for a relay index
TimersOf(relayIndex) ==
    {task \in DOMAIN timerTasks : timerTasks[task].relayIndex = relayIndex}

\* the command processor is about to apply a command of type commandType to relayIndex
Applying(commandType, relayIndex) ==
    /\ worker.pc = "receive"
    /\ commandQueue # << >>
    /\ Head(commandQueue).commandType = commandType
    /\ Head(commandQueue).pointId \in DOMAIN buildDirectRelayMap(ioConfig)
    /\ buildDirectRelayMap(ioConfig)[Head(commandQueue).pointId] = relayIndex

\* C3 - timed-on then off: when the worker applies a TURN_OFF to a channel
\* whose timer is still in its delay, the channel is OFF afterwards, no timer
\* is armed for it any more and no timer task is left to submit a command.
C3_OffCancelsTimer ==
    [][\A c \in RelayIndexes(ioConfig) :
         (/\ Applying("TURN_OFF", c)
          /\ \E task \in TimersOf(c) : timerTasks[task].pc = "delay"
          /\ commandQueue' = Tail(commandQueue))
           => (/\ ~ChannelOn(c)'
               /\ activeTimerTasks'[c] = NullHandle
               /\ TimersOf(c)' = {})]_vars

\* C4 - one timer per channel: every channel has at most one live timer
\* task, and its handle is non-null exactly when it has one.
C4_OneTimerPerChannel ==
    \A c \in RelayIndexes(ioConfig) :
      /\ Cardinality(TimersOf(c)) <= 1
      /\ (activeTimerTasks[c] # NullHandle) <=> (TimersOf(c) # {})

\* the worker has applied TURN_ON_TIMED to relay index c, its timer is in its
\* delay, and no further TURN_ON_TIMED is pending or can be submitted
TimedOnApplied(c) ==
    /\ worker.pc = "receive"
    /\ ChannelOn(c)
    /\ \E task \in TimersOf(c) : timerTasks[task].pc = "delay" /\ activeTimerTasks[c] = task
    /\ nextTask - 1 = MaxTimers

\* C5 - timed-on always ends: once the worker has applied TURN_ON_TIMED to
\* DirectRelay_0 and no later TURN_ON or TURN_ON_TIMED for it is submitted,
\* the channel is eventually OFF, whatever is submitted for other channels.
C5_TimedOnEnds == TimedOnApplied(0) ~> ~ChannelOn(0)

\* C9 - sendCommand signals backpressure: with the queue at its capacity it
\* returns false and the queue is unchanged; with room it returns true and the
\* command is the new last element.  The same holds when the caller is a timer
\* task, which does not look at the result.
C9_SendCommandBackpressure ==
    [][/\ \A command \in FloodCommands :
            SendCommandCall(command) =>
              IF Len(commandQueue) = QueueCapacity
              THEN ~ret'.ok /\ commandQueue' = commandQueue
              ELSE ret'.ok /\ commandQueue' = Append(commandQueue, command)
       /\ \A task \in DOMAIN timerTasks :
            TimerExpire(task) =>
              IF Len(commandQueue) = QueueCapacity
              THEN commandQueue' = commandQueue
              ELSE commandQueue' = Append(commandQueue,
                                          TimerOffCommand(timerTasks[task].relayIndex))
      ]_vars

\* sendCommand has just been refused on a full queue
C9_Witness ==
    /\ ret.op = "sendCommand"
    /\ ~ret.ok
    /\ Len(commandQueue) = QueueCapacity
    /\ submits > QueueCapacity

\* C10 - serialized output: the relay outputs change only in a step in which
\* the worker takes the command at the head of the queue, and then as that
\* command says; the queue changes only by losing its head to the worker or by
\* gaining an accepted command at its back, so commands are applied in the
\* order in which they were accepted.
C10_SerializedOutput ==
    [][/\ (relayState' # relayState \/ pinLevel' # pinLevel) =>
            /\ worker.pc = "receive"
            /\ commandQueue # << >>
            /\ commandQueue' = Tail(commandQueue)
            /\ \E c \in RelayIndexes(ioConfig) :
                 /\ Applying(Head(commandQueue).commandType, c)
                 /\ ChannelOn(c)' = (Head(commandQueue).commandType # "TURN_OFF")
       /\ commandQueue' # commandQueue =>
            \/ worker.pc = "receive" /\ commandQueue # << >> /\ commandQueue' = Tail(commandQueue)
            \/ /\ Len(commandQueue') = Len(commandQueue) + 1
               /\ SubSeq(commandQueue', 1, Len(commandQueue)) = commandQueue
      ]_vars

\* on a board whose controlMethod is spelt in another case than
\* "ShiftRegister", the worker has applied a timer's TURN_OFF that waited in
\* the queue behind other commands
C10_Witness ==
    /\ nextTask > 1
    /\ submits >= 2
    /\ commandQueue = << >>
    /\ worker.pc = "receive"
    /\ timerTasks = NoTimerTasks
    /\ \A c \in RelayIndexes(ioConfig) : ~ChannelOn(c)
    /\ equalsIgnoreCase(ioConfig.controlMethod, "ShiftRegister")
    /\ ioConfig.controlMethod # "ShiftRegister"
    /\ ioConfig.pointIdPrefix = "DirectRelay_"
    /\ ioConfig.pointIdStartIndex = 0

\* the last element of a non-empty sequence
Last(seq) == seq[Len(seq)]

\* C11 - the timer's Off targets the same channel: the TURN_OFF a timer task
\* puts into the queue when it expires carries a pointId that the worker maps
\* to the relay index the timer was armed for, whatever pointIdPrefix and
\* pointIdStartIndex the board is configured with.
C11_TimerOffSameChannel ==
    [][\A task \in DOMAIN timerTasks :
         (TimerExpire(task) /\ commandQueue' # commandQueue) =>
           /\ Last(commandQueue').commandType = "TURN_OFF"
           /\ Last(commandQueue').pointId \in DOMAIN buildDirectRelayMap(ioConfig)
           /\ buildDirectRelayMap(ioConfig)[Last(commandQueue').pointId]
                = timerTasks[task].relayIndex]_vars

\* the locks of `file` on resources other than resourceId, in file order
LocksElsewhere(file, resourceId) ==
    SelectSeq(file, LAMBDA l : l.resourceId # resourceId)

\* C12 - idempotent re-acquire: an acquireLock(R, S) that directly follows a
\* successful acquireLock(R, S) returns true again; afterwards exactly one
\* lock is on R, its holder is S, and the locks on other resources are as
\* before.
C12_IdempotentReacquire ==
    [][(/\ ret.op = "acquireLock" /\ ret.ok
        /\ ret'.op = "acquireLock" /\ ret'.res = ret.res /\ ret'.sid = ret.sid)
         => (/\ ret'.ok
             /\ Cardinality({i \in 1..Len(lockFile') : lockFile'[i].resourceId = ret.res}) = 1
             /\ HeldBy(lockFile', ret.res, ret.sid) = 1
             /\ LocksElsewhere(lockFile', ret.res) = LocksElsewhere(lockFile, ret.res))]_vars

\* C13 - releaseLock(R, T) returns true only if the lock file held a lock of
\* T on R, and then exactly that lock is gone; when R is unlocked or held by
\* another token it returns false and the lock file is unchanged.
C13_ReleaseLockExactPair ==
    [][ret'.op = "releaseLock" =>
         /\ ret'.ok => /\ HeldBy(lockFile, ret'.res, ret'.sid) = 1
                       /\ lockFile' = SelectSeq(lockFile,
                                         LAMBDA l : ~(l.resourceId = ret'.res
                                                      /\ l.sessionId = ret'.sid))
                       /\ Len(lockFile') = Len(lockFile) - 1
         /\ HeldBy(lockFile, ret'.res, ret'.sid) = 0 =>
              (~ret'.ok /\ lockFile' = lockFile)]_vars

\* releaseLock has just removed one session's lock and left another session's lock in place
C13_Witness ==
    /\ ret.op = "releaseLock"
    /\ ret.ok
    /\ Len(lockFile) = 1
    /\ lockFile[1].sessionId # ret.sid
    /\ lockFile[1].resourceId # ret.res

\* the locks of `file` whose holder is not sessionId, in file order
LocksOfOthers(file, sessionId) == SelectSeq(file, LAMBDA l : l.sessionId # sessionId)

\* number of locks in `file` whose holder is sessionId
LocksHeld(file, sessionId) ==
    Cardinality({i \in 1..Len(file) : file[i].sessionId = sessionId})

\* C14 - releaseLocksForSession(T) returns the number of locks T held, the
\* lock file afterwards holds none of them, and the locks of the other
\* tokens are all there, unchanged.
C14_ReleaseLocksForSessionFrame ==
    [][ret'.op = "releaseLocksForSession" =>
         /\ ret'.count = LocksHeld(lockFile, ret'.sid)
         /\ LocksHeld(lockFile', ret'.sid) = 0
         /\ lockFile' = LocksOfOthers(lockFile, ret'.sid)]_vars

\* invalidateSession called for each id of `ids` in turn, id meeting storage outcome fsf[id]
RECURSIVE InvalidateEach(_, _, _, _)
InvalidateEach(sessions, file, ids, fsf) ==
    IF ids = << >> THEN [sessions |-> sessions, file |-> file]
    ELSE LET r == invalidateSession(sessions, file, Head(ids), fsf[Head(ids)])
         IN InvalidateEach(r.sessions, r.file, Tail(ids), fsf)

\* the stored sessions whose last heartbeat is more than the timeout before `now`
PastTimeout(sessions, now) ==
    {id \in DOMAIN sessions : now - sessions[id].lastHeartbeat > SESSION_TIMEOUT_MS}

\* C15 - session expiry sweep: a cleanupExpiredSessions pass made at least
\* SESSION_CLEANUP_INTERVAL_MS after the previous one leaves no session whose
\* last heartbeat is more than SESSION_TIMEOUT_MS old, leaves the lock file as
\* invalidateSession of each of those sessions would, and keeps every session
\* whose last heartbeat is less than SESSION_TIMEOUT_MS old as it was; a pass
\* made earlier changes neither the table, the lock file nor the time of the
\* previous pass.
C15_SessionExpirySweep ==
    \A fsf \in [Tokens -> FsOutcomes] :
      LET r == cleanupExpiredSessions(activeSessions, lockFile, sessLastCleanupTime,
                                      clock, fsf)
          runs == clock - sessLastCleanupTime >= SESSION_CLEANUP_INTERVAL_MS
          expired == PastTimeout(activeSessions, clock)
          asInvalidated == InvalidateEach(activeSessions, lockFile,
                             SelectSeq(TokenOrder, LAMBDA id : id \in expired), fsf)
      IN /\ runs =>
              /\ \A id \in expired : id \notin DOMAIN r.sessions
              /\ r.file = asInvalidated.file
              /\ \A id \in DOMAIN activeSessions :
                   clock - activeSessions[id].lastHeartbeat < SESSION_TIMEOUT_MS
                     => /\ id \in DOMAIN r.sessions
                        /\ r.sessions[id] = activeSessions[id]
         /\ ~runs =>
              /\ r.sessions = activeSessions
              /\ r.file = lockFile
              /\ r.last = sessLastCleanupTime

\* a pass has just removed a session and its locks while a session seen within the timeout stays
C15_Witness ==
    /\ ret.op = "cleanupExpiredSessions"
    /\ ret.count > 0
    /\ issued \ DOMAIN activeSessions # {}
    /\ \E id \in DOMAIN activeSessions :
         clock - activeSessions[id].lastHeartbeat < SESSION_TIMEOUT_MS
    /\ \A id \in issued \ DOMAIN activeSessions : NoLockOf(lockFile, id)

\* C16 - lock expiry sweep: when a cleanupExpiredLocks pass that runs returns,
\* no lock of the lock file is older than LOCK_TIMEOUT_MS at the time the pass
\* read, and every lock that was in the lock file and is younger than
\* LOCK_TIMEOUT_MS is still there with the same holder and timestamp, a lock
\* acquired or refreshed while the pass was in progress included.
C16_LockExpirySweep ==
    [][lockLastCleanupTime' # lockLastCleanupTime =>
         /\ \A i \in 1..Len(lockFile') :
              ~(lockLastCleanupTime' - lockFile'[i].timestamp > LOCK_TIMEOUT_MS)
         /\ \A i \in 1..Len(lockFile) :
              lockLastCleanupTime' - lockFile[i].timestamp < LOCK_TIMEOUT_MS
                => \E j \in 1..Len(lockFile') : lockFile'[j] = lockFile[i]]_vars

\* the half-open spans [a.startTime, a.endTime) and [b.startTime, b.endTime) intersect
SpansIntersect(a, b) == a.startTime < b.endTime /\ b.startTime < a.endTime

\* validateAndAddEvent answers for `event` on `schedule` as the overlap rule says:
\* false and no change when the span of event meets that of a window of the
\* schedule, true and the window added otherwise
FollowsOverlapRule(schedule, event) ==
    LET r == validateAndAddEvent(schedule, event)
        meets == \E i \in 1..Len(schedule.autopilotWindows) :
                   SpansIntersect(event, schedule.autopilotWindows[i])
    IN /\ r.ok = ~meets
       /\ ~r.ok => r.schedule = schedule
       /\ r.ok => /\ Len(r.schedule.autopilotWindows) = Len(schedule.autopilotWindows) + 1
                   /\ Range(r.schedule.autopilotWindows)
                        = Range(schedule.autopilotWindows) \cup {event}

\* the windows of the two examples, with a settling time that makes them valid
ExampleWindow(startTime, endTime) ==
    AutopilotWindow(startTime, endTime, [doseVolume |-> 0, doseDuration |-> 0, settlingTime |-> 5])

\* [60,120) then [100,160) rejects the second; [60,120) then [120,180) accepts both
OverlapExamples ==
    LET first == validateAndAddEvent(DefaultSchedule, ExampleWindow(60, 120))
    IN /\ first.ok
       /\ ~validateAndAddEvent(first.schedule, ExampleWindow(100, 160)).ok
       /\ validateAndAddEvent(first.schedule, ExampleWindow(120, 180)).ok

\* C20 as stated - autopilot overlap rule: for every window with
\* 0 <= start < end <= 1439 and every schedule, validateAndAddEvent returns
\* false exactly when the half-open span of the window intersects the span of
\* some autopilot window already in the schedule, and true otherwise.
C20_AutopilotOverlapRule ==
    /\ OverlapExamples
    /\ \A event \in Windows :
         (0 <= event.startTime /\ event.startTime < event.endTime /\ event.endTime <= 1439)
           => FollowsOverlapRule(draft, event)


\* the request gets as far as the lock check of the PUT branch: its session is
\* accepted, its role is Manager or above, its body is a JSON document of at
\* most 10 KB, and its uid names a schedule without a persistent lock
ReachesPutLockCheck(request) ==
    /\ validateSession(activeSessions, lockFile, request, clock, FsOk).found # ""
    /\ activeSessions[CookieSessionId(request)].userRole \in {"MANAGER", "OWNER"}
    /\ request.body.size <= 10240
    /\ request.body.json
    /\ request.uid # << >>
    /\ \E i \in 1..Len(scheduleIndex) :
          scheduleIndex[i].scheduleUID = request.uid[1]
            /\ scheduleIndex[i].persistentLockLevel = 0

\* a PUT that answers 200 has written the schedule and leaves the lock on
\* "schedule_"+uid with the acting session
PutSuccessHoldsLock ==
    \A request \in ApiRequests({"PUT"}, Bodies) :
      \A io \in PutIo(request) :
        LET r == SchedulePostPutRoute(activeSessions, lockFile, scheduleIndex,
                                      scheduleFiles, request, clock, io)
        IN r.status = 200 =>
             /\ request.uid # << >>
             /\ HeldBy(r.file, "schedule_" \o request.uid[1], CookieSessionId(request)) = 1
             /\ Len(r.files[request.uid[1]]) = 1
             /\ r.files[request.uid[1]][1].scheduleUID = request.uid[1]

\* a PUT whose schedule is edit-locked by another session answers 409 (or,
\* unless `always`, 500 when the lock file cannot be read for the conflict
\* report) and changes no stored schedule, index entry or lock
PutAgainstOtherHolder(always) ==
    \A request \in ApiRequests({"PUT"}, Bodies) :
      \A io \in PutIo(request) :
        LET r == SchedulePostPutRoute(activeSessions, lockFile, scheduleIndex,
                                      scheduleFiles, request, clock, io)
        IN (/\ ReachesPutLockCheck(request)
            /\ HeldByOther(lockFile, "schedule_" \o request.uid[1], CookieSessionId(request)))
           => /\ r.status = IF always \/ io.info.load THEN 409 ELSE 500
              /\ r.files = scheduleFiles
              /\ r.index = scheduleIndex
              /\ r.file = lockFile

\* C17 as stated: PUT /api/schedule answers 200 (and writes the schedule) only
\* if the acting session holds the lock on "schedule_"+uid afterwards; if
\* another session holds it the answer is 409 and neither the stored schedule
\* nor the lock changes
C17_UpdateRequiresEditLock ==
    PutSuccessHoldsLock /\ PutAgainstOtherHolder(TRUE)

\* C17 with the status the code sends: as above, with 409 when the lock file
\* can be read for the conflict report and 500 when it cannot
C17_UpdateRequiresEditLockWhenReadable ==
    PutSuccessHoldsLock /\ PutAgainstOtherHolder(FALSE)

\* a PUT by a live session was refused with 409 while another session held
\* the lock on the schedule
C17_Witness ==
    /\ resp.handler = "PUT /api/schedule"
    /\ resp.status = 409
    /\ resp.sid \in DOMAIN activeSessions
    /\ HeldByOther(lockFile, "schedule_a", resp.sid)
    /\ scheduleFiles["a"] = <<StoredSchedule>>


\* the index with the entry of uid at the given persistent lock level
WithLockLevel(index, uid, level) ==
    [i \in 1..Len(index) |->
       IF index[i].scheduleUID = uid THEN [index[i] EXCEPT !.persistentLockLevel = level]
       ELSE index[i]]

\* a request of an accepted session of role Manager or above that names an
\* indexed schedule
ManagerOnIndexed(request) ==
    /\ validateSession(activeSessions, lockFile, request, clock, FsOk).found # ""
    /\ activeSessions[CookieSessionId(request)].userRole \in {"MANAGER", "OWNER"}
    /\ request.uid # << >>
    /\ getPersistentLockLevel(scheduleIndex, request.uid[1]) # -1

\* the index of the current state with the schedule the request names at the
\* given persistent lock level
LockedIndex(request, level) == WithLockLevel(scheduleIndex, request.uid[1], level)

\* the lock file as it is, and as it would be with the acting session holding
\* the edit lock on the schedule
WithAndWithoutEditLock(request) ==
    {lockFile,
     acquireLock(lockFile, "schedule_" \o request.uid[1], "EDITING_SCHEDULE",
                 activeSessions[CookieSessionId(request)], clock, FsOk).file}

\* the handler answered 403 and left the schedule files, the index and the
\* locks as they were
RefusedUnchanged(r, file, index) ==
    /\ r.status = 403
    /\ r.files = scheduleFiles
    /\ r.index = index
    /\ r.file = file

\* C18 - persistent lock blocks mutation: for a schedule whose
\* persistentLockLevel is 1 or 2, PUT, DELETE and POST /api/schedule/lock
\* answer 403 and change neither the schedule file, the index nor the locks,
\* whether or not the acting session holds the edit lock. The level is an
\* input of the handlers here: each is run on the index of the current state
\* with the named schedule's level set to 1 and to 2.
C18_PersistentLockBlocksMutation ==
    \A level \in {1, 2} :
      /\ \A request \in ApiRequests({"PUT"}, Bodies) :
           (ManagerOnIndexed(request) /\ request.body.size <= 10240 /\ request.body.json)
           => \A file \in WithAndWithoutEditLock(request) :
                \A io \in PutIo(request) \cup PutOutcomes :
                  RefusedUnchanged(SchedulePostPutRoute(activeSessions, file,
                                                        LockedIndex(request, level),
                                                        scheduleFiles, request, clock, io),
                                   file, LockedIndex(request, level))
      /\ \A request \in ApiRequests({"DELETE"}, {NoBody}) :
           ManagerOnIndexed(request)
           => \A file \in WithAndWithoutEditLock(request) :
                \A io \in DeleteIo(request) \cup DeleteOutcomes :
                  RefusedUnchanged(handleDeleteSchedule(activeSessions, file,
                                                        LockedIndex(request, level),
                                                        scheduleFiles, request, clock, io),
                                   file, LockedIndex(request, level))
      /\ \A request \in ApiRequests({"POST"}, {NoBody}) :
           ManagerOnIndexed(request)
           => \A file \in WithAndWithoutEditLock(request) :
                \A io \in LockPostIo(request) \cup LockPostOutcomes :
                  RefusedUnchanged(handleScheduleLockPost(activeSessions, file,
                                                          LockedIndex(request, level),
                                                          scheduleFiles, request, clock, io),
                                   file, LockedIndex(request, level))

\* a Manager holding the edit lock on schedule "a" has just updated it with
\* 200; the same request is answered 200 again on the index as it is and 403,
\* with nothing changed, on the index with "a" at level 1 and at level 2
C18_Witness ==
    /\ resp.handler = "PUT /api/schedule"
    /\ resp.status = 200
    /\ resp.sid \in DOMAIN activeSessions
    /\ activeSessions[resp.sid].userRole = "MANAGER"
    /\ HeldBy(lockFile, "schedule_a", resp.sid) = 1
    /\ getPersistentLockLevel(scheduleIndex, "a") = 0
    /\ \E request \in ApiRequests({"PUT"}, Bodies) :
         /\ ManagerOnIndexed(request)
         /\ CookieSessionId(request) = resp.sid
         /\ request.uid = <<"a">>
         /\ SchedulePostPutRoute(activeSessions, lockFile, scheduleIndex, scheduleFiles,
                                 request, clock, IoOk).status = 200
         /\ \A level \in {1, 2} :
              RefusedUnchanged(SchedulePostPutRoute(activeSessions, lockFile,
                                                    LockedIndex(request, level),
                                                    scheduleFiles, request, clock, IoOk),
                               lockFile, LockedIndex(request, level))


\* validateSession refuses the request
Unauthenticated(request) ==
    validateSession(activeSessions, lockFile, request, clock, FsOk).found = ""

\* validateSession accepts the request and its session is a Viewer's
ViewerRequest(request) ==
    /\ ~Unauthenticated(request)
    /\ activeSessions[CookieSessionId(request)].userRole = "VIEWER"

\* the handler changed no schedule file, index entry or lock
NothingChanged(r) ==
    /\ r.files = scheduleFiles
    /\ r.index = scheduleIndex
    /\ r.file = lockFile

\* the gate as stated: 401 without an accepted session, 403 for a Viewer,
\* nothing changed in either case
GateAsStated(request, r) ==
    /\ Unauthenticated(request) => r.status = 401 /\ NothingChanged(r)
    /\ ViewerRequest(request) => r.status = 403 /\ NothingChanged(r)

\* C19 as stated: a schedule create, update or delete, or an edit-lock acquire
\* or release, answers 401 without a session validateSession accepts and 403
\* for a Viewer, and in both cases changes no schedule, index entry or lock
C19_AuthAndRoleGate ==
    /\ \A request \in ApiRequests({"POST", "PUT"}, Bodies) : \A io \in PutIo(request) :
         GateAsStated(request, SchedulePostPutRoute(activeSessions, lockFile,
                                   scheduleIndex, scheduleFiles, request, clock, io))
    /\ \A request \in ApiRequests({"DELETE"}, {NoBody}) : \A io \in DeleteIo(request) :
         GateAsStated(request, handleDeleteSchedule(activeSessions, lockFile, scheduleIndex,
                                   scheduleFiles, request, clock, io))
    /\ \A request \in ApiRequests({"POST"}, {NoBody}) : \A io \in LockPostIo(request) :
         GateAsStated(request, handleScheduleLockPost(activeSessions, lockFile, scheduleIndex,
                                   scheduleFiles, request, clock, io))
    /\ \A request \in ApiRequests({"DELETE"}, {NoBody}) : \A io \in LockDeleteIo(request) :
         GateAsStated(request, handleScheduleLockDelete(activeSessions, lockFile,
                                   scheduleIndex, scheduleFiles, request, clock, io))


\* every duration event has a duration and ends after it starts, and no two
\* of them have intersecting half-open spans
DisjointDurations(schedule) ==
    LET events == schedule.durationEvents
    IN /\ \A i \in 1..Len(events) :
            events[i].duration > 0 /\ events[i].startTime < events[i].endTime
       /\ \A i, j \in 1..Len(events) : i # j => ~SpansIntersect(events[i], events[j])

\* C21: a schedule built from empty by successful validateAndAddEvents calls
\* that each insert one duration event with duration > 0 and startTime < endTime
\* has no two duration events with intersecting spans [startTime, endTime).
\* Stated on the step that keeps it so: from a schedule of disjoint duration
\* events and nothing else, no such call that succeeds leaves two that intersect.
C21_DurationEventsDisjoint ==
    (draft.volumeEvents = << >> /\ DisjointDurations(draft))
    => \A events \in DurationBatches :
         (/\ Len(events) = 1
          /\ events[1].duration > 0
          /\ events[1].startTime < events[1].endTime
          /\ validateAndAddDurationEvents(draft, events).ok)
         => DisjointDurations(validateAndAddDurationEvents(draft, events).schedule)


\* no volume event starts inside [startTime, endTime) of a duration event
VolumesOutsideDurations(schedule) ==
    \A i \in 1..Len(schedule.volumeEvents), j \in 1..Len(schedule.durationEvents) :
      ~(/\ schedule.durationEvents[j].startTime <= schedule.volumeEvents[i].startTime
        /\ schedule.volumeEvents[i].startTime < schedule.durationEvents[j].endTime)

\* no two volume events start together
VolumeStartsDiffer(schedule) ==
    \A i, j \in 1..Len(schedule.volumeEvents) :
      i # j => schedule.volumeEvents[i].startTime # schedule.volumeEvents[j].startTime

\* C22: in a schedule built from empty by successful validateAndAddEvents
\* calls, duration and volume insertions in any order, no volume event starts
\* inside [startTime, endTime) of a duration event and no two volume events
\* start together
C22_VolumeOutsideDurationSpans ==
    VolumesOutsideDurations(draft) /\ VolumeStartsDiffer(draft)


\* the duration events and volume events of a schedule, counted together
EventCount(schedule) == Len(schedule.durationEvents) + Len(schedule.volumeEvents)

\* C23: validateAndAddEvents succeeds only if the duration-event count plus
\* the volume-event count plus the number of new events is at most 100, so
\* the combined count never exceeds 100, and adding an event to a schedule
\* that holds 100 fails
C23_EventLimit ==
    /\ EventCount(draft) <= 100
    /\ \A events \in DurationBatches :
         validateAndAddDurationEvents(draft, events).ok
           => EventCount(draft) + Len(events) <= 100
    /\ \A events \in VolumeBatches :
         validateAndAddVolumeEvents(draft, events).ok
           => EventCount(draft) + Len(events) <= 100
    /\ EventCount(draft) = 100
         => /\ \A events \in DurationBatches \ {<< >>} :
                 ~validateAndAddDurationEvents(draft, events).ok
            /\ \A events \in VolumeBatches :
                 ~validateAndAddVolumeEvents(draft, events).ok

\* the call that added one event to a schedule holding 99 succeeded
C23_Witness ==
    /\ EventCount(draft) = 100
    /\ added.kind \in {"duration", "volume"}
    /\ Len(added.event) = 1
    /\ added.ok


\* C24: whenever validateAndAddEvent or validateAndAddEvents returns false,
\* the schedule's three event lists are as they were before the call
C24_ValidationAllOrNothing ==
    /\ \A events \in DurationBatches :
         LET r == validateAndAddDurationEvents(draft, events)
         IN ~r.ok => r.schedule = draft
    /\ \A events \in VolumeBatches :
         LET r == validateAndAddVolumeEvents(draft, events)
         IN ~r.ok => r.schedule = draft
    /\ \A event \in FewWindows :
         LET r == validateAndAddEvent(draft, event)
         IN ~r.ok => r.schedule = draft

\* a batch of two duration events was refused for its second event, and the
\* first, which would have been accepted alone, is not in the schedule
C24_Witness ==
    /\ added.kind = "duration"
    /\ ~added.ok
    /\ Len(added.event) = 2
    /\ DurationEventPasses(draft, added.event[1])
    /\ ~DurationEventPasses(draft, added.event[2])
    /\ \A i \in 1..Len(draft.durationEvents) : draft.durationEvents[i] # added.event[1]
    /\ draft.volumeEvents # << >>


\* a schedule of the kind the round trip is stated for: named, with a uid,
\* every event valid, and no two events of a list overlapping
PassesValidation(s) ==
    /\ ScheduleIsValid(s)
    /\ \A i \in 1..Len(s.autopilotWindows) :
         /\ AutopilotWindowIsValid(s.autopilotWindows[i])
         /\ \A j \in 1..Len(s.autopilotWindows) :
              i # j => ~SpansIntersect(s.autopilotWindows[i], s.autopilotWindows[j])
    /\ \A i \in 1..Len(s.durationEvents) :
         /\ DurationEventIsValid(s.durationEvents[i])
         /\ \A j \in 1..Len(s.durationEvents) :
              i # j => ~SpansIntersect(s.durationEvents[i], s.durationEvents[j])
    /\ \A i \in 1..Len(s.volumeEvents) :
         /\ VolumeEventIsValid(s.volumeEvents[i])
         /\ \A j \in 1..Len(s.volumeEvents) :
              i # j => s.volumeEvents[i].startTime # s.volumeEvents[j].startTime
         /\ \A j \in 1..Len(s.durationEvents) :
              ~(/\ s.volumeEvents[i].startTime >= s.durationEvents[j].startTime
                /\ s.volumeEvents[i].startTime < s.durationEvents[j].endTime)

\* s with each of its event lists in start-time order
SortedByStart(s) ==
    [s EXCEPT !.autopilotWindows = SortWindows(s.autopilotWindows),
              !.durationEvents = SortEvents(<< >>, s.durationEvents),
              !.volumeEvents = SortEvents(<< >>, s.volumeEvents)]

\* saveSchedule(s) then loadSchedule(s.uid), with the storage working
RoundTrip(index, files, s) ==
    LET saved == saveSchedule(index, files, s, "ok")
        loaded == loadSchedule(saved.files, s.scheduleUID, "ok")
    IN saved.ok /\ loaded.ok /\ loaded.schedule = SortedByStart(s)

\* C25: for every schedule with a name and a uid whose events pass isValid
\* and the overlap rules, saveSchedule(s) followed by loadSchedule(s.uid)
\* returns true and yields s with its event lists sorted by start time
C25_ScheduleRoundTrip ==
    \A s \in StoreSchedules :
      PassesValidation(s) => RoundTrip(scheduleIndex, scheduleFiles, s)


\* the positions of the index that name uid
IndexEntries(index, uid) == {i \in 1..Len(index) : index[i].scheduleUID = uid}

\* one entry per schedule file and no entry without a file
Mirrors(index, files) ==
    /\ \A uid \in ScheduleUids(files) : Cardinality(IndexEntries(index, uid)) = 1
    /\ \A i \in 1..Len(index) : index[i].scheduleUID \in ScheduleUids(files)

\* C29: after begin(), and after successful saveSchedule and deleteSchedule
\* calls with no storage failure, the index holds exactly one entry per
\* schedule file and none without a file; saving a uid that is not indexed
\* adds exactly one entry, saving an indexed uid adds none
C29_IndexMirrorsFiles ==
    /\ LET b == begin(scheduleFiles, lockFile, "ok")
       IN b.ok /\ Mirrors(b.index, b.files)
    /\ Mirrors(scheduleIndex, scheduleFiles) =>
         /\ \A schedule \in StoreSchedules :
              LET r == saveSchedule(scheduleIndex, scheduleFiles, schedule, "ok")
              IN r.ok => Mirrors(r.index, r.files)
         /\ \A uid \in StoreUids :
              LET r == deleteSchedule(scheduleIndex, scheduleFiles, uid, "ok")
              IN r.ok => Mirrors(r.index, r.files)
    /\ \A schedule \in StoreSchedules :
         LET r == saveSchedule(scheduleIndex, scheduleFiles, schedule, "ok")
             indexed == IndexEntries(scheduleIndex, schedule.scheduleUID) # {}
         IN r.ok => Len(r.index) = Len(scheduleIndex) + (IF indexed THEN 0 ELSE 1)

\* schedule "a" was saved again while the index already named "a" and "b":
\* the index still has its two entries and mirrors the two files
C29_Witness ==
    /\ added = [kind |-> "save", event |-> <<"a", "ok">>, ok |-> TRUE]
    /\ Len(scheduleIndex) = 2
    /\ ScheduleUids(scheduleFiles) = {"a", "b"}
    /\ Mirrors(scheduleIndex, scheduleFiles)

\* the index without its entries for uid
WithoutEntry(index, uid) == SelectSeq(index, LAMBDA e : e.scheduleUID # uid)

\* C30: deleteSchedule(uid) returns true only if the schedule file was
\* removed and, when the uid was indexed, the index without that entry was
\* persisted; if the file does not exist it returns false and changes
\* nothing; if the index rewrite fails after the file was removed it returns
\* false, the file stays removed and the index in memory no longer lists uid
C30_DeleteScheduleOutcome ==
    \A uid \in StoreUids, outcome \in {"ok", "open", "write"} :
      LET r == deleteSchedule(scheduleIndex, scheduleFiles, uid, outcome)
          exists == uid \in ScheduleUids(scheduleFiles)
          indexed == IndexEntries(scheduleIndex, uid) # {}
      IN /\ r.ok =>
              /\ exists
              /\ uid \notin ScheduleUids(r.files)
              /\ indexed =>
                   /\ r.index = WithoutEntry(scheduleIndex, uid)
                   /\ IndexFile \in DOMAIN r.files
                   /\ r.files[IndexFile] = <<IndexDoc(r.index)>>
         /\ ~exists =>
              ~r.ok /\ r.index = scheduleIndex /\ r.files = scheduleFiles
         /\ exists /\ indexed /\ outcome = "write" =>
              /\ ~r.ok
              /\ uid \notin ScheduleUids(r.files)
              /\ IndexEntries(r.index, uid) = {}

\* deleteSchedule("a") removed the file, could not write the index and
\* returned false; "a" is in neither the files nor the index
C30_Witness ==
    /\ added = [kind |-> "delete", event |-> <<"a", "write">>, ok |-> FALSE]
    /\ "a" \notin ScheduleUids(scheduleFiles)
    /\ IndexEntries(scheduleIndex, "a") = {}
    /\ scheduleFiles[IndexFile] = << >>


\* C27: after any sequence of createSession, validateSession,
\* invalidateSession and cleanupExpiredSessions calls every stored session has
\* a non-empty token equal to its map key, no two stored sessions share a
\* token and none has role Unknown; createSession with role Unknown stores
\* nothing and returns an invalid session
C27_SessionTableInvariant ==
    /\ \A k \in DOMAIN activeSessions :
         /\ k # ""
         /\ activeSessions[k].sessionId = k
         /\ activeSessions[k].userRole # "UNKNOWN"
    /\ \A k1, k2 \in DOMAIN activeSessions :
         k1 # k2 => activeSessions[k1].sessionId # activeSessions[k2].sessionId
    /\ \A id \in Tokens, client \in Clients :
         LET r == createSession(activeSessions, id, "alice", "UNKNOWN",
                                [isNull |-> FALSE, client |-> client, cookie |-> ""], clock)
         IN ~SessionIsValid(r.session) /\ r.sessions = activeSessions

\* two sessions are stored, the second just created, at a time when a
\* createSession with role Unknown would have every other field valid
C27_Witness ==
    /\ ret.op = "createSession"
    /\ DOMAIN activeSessions = Tokens
    /\ clock > 0

\* C28 - invalidateSession is idempotent: invalidating a token that is not in
\* the session table returns false and changes neither the session table nor
\* the lock set; invalidating the same session twice leaves the same state
\* as invalidating it once; the other sessions and their locks are untouched
C28_InvalidateSessionIdempotent ==
    \A sid \in Tokens \cup {""}, fs \in FsOutcomes :
      LET r == invalidateSession(activeSessions, lockFile, sid, fs)
      IN /\ sid \notin DOMAIN activeSessions =>
              ~r.ok /\ r.sessions = activeSessions /\ r.file = lockFile
         /\ \A fs2 \in FsOutcomes :
              LET again == invalidateSession(r.sessions, r.file, sid, fs2)
              IN again.sessions = r.sessions /\ again.file = r.file
         /\ \A k \in (DOMAIN activeSessions) \ {sid} :
              k \in DOMAIN r.sessions /\ r.sessions[k] = activeSessions[k]
         /\ LocksOfOthers(r.file, sid) = LocksOfOthers(lockFile, sid)


\* create, update with window w, read, delete and read again, each request
\* carrying the session `cookie`, none meeting a storage failure: the
\* statuses are 201, 200, 200, 200 and 404, and the document of the first
\* read has a window from 60 to 120
ScenarioRuns(cookie, w) ==
    LET uid == generateUID("Morning", clock)
    IN
    \E post \in {SchedulePostPutRoute(activeSessions, lockFile, scheduleIndex,
                    scheduleFiles, ScenarioRequest(cookie, "POST", << >>, MorningBody),
                    clock, IoOk)} :
    \E put \in {SchedulePostPutRoute(post.sessions, post.file, post.index, post.files,
                    ScenarioRequest(cookie, "PUT", <<uid>>, WindowBody(w)), clock, IoOk)} :
    \E get \in {handleGetSchedule(put.sessions, put.file, put.index, put.files,
                    ScenarioRequest(cookie, "GET", <<uid>>, NoBody), clock, IoOk)} :
    \E del \in {handleDeleteSchedule(get.sessions, get.file, get.index, get.files,
                    ScenarioRequest(cookie, "DELETE", <<uid>>, NoBody), clock, IoOk)} :
    \E last \in {handleGetSchedule(del.sessions, del.file, del.index, del.files,
                    ScenarioRequest(cookie, "GET", <<uid>>, NoBody), clock, IoOk)} :
      /\ post.status = 201
      /\ uid \in ScheduleUids(post.files)
      /\ put.status = 200
      /\ get.status = 200
      /\ \E i \in 1..Len(get.body[1].autopilotWindows) :
           /\ get.body[1].autopilotWindows[i].startTime = 60
           /\ get.body[1].autopilotWindows[i].endTime = 120
      /\ del.status = 200
      /\ last.status = 404

\* the session of the cookie is an Owner's and validateSession accepts it,
\* and the uid the POST will generate is neither stored nor edit-locked
OwnerCanStart(cookie) ==
    /\ validateSession(activeSessions, lockFile, ScenarioRequest(cookie, "GET", << >>, NoBody),
                       clock, FsOk).found = cookie
    /\ activeSessions[cookie].userRole = "OWNER"
    /\ generateUID("Morning", clock) \notin ScheduleUids(scheduleFiles)
    /\ ~isLocked(lockFile, "schedule_" \o generateUID("Morning", clock), FsOk).locked

\* C26: with a valid Owner session, POST /api/schedule with name "Morning"
\* returns 201 with a generated uid; PUT of that uid with one autopilot window
\* from minute 60 to minute 120 returns 200; the following GET returns a
\* schedule containing that window; DELETE returns 200 and a further GET 404
C26_EndToEndScenario ==
    \A cookie \in Tokens, w \in ScenarioWindows :
      OwnerCanStart(cookie) => ScenarioRuns(cookie, w)


\* what getPersistentLockLevel(uid) returns after saveScheduleIndex wrote the
\* index and the controller restarted (begin: loadScheduleIndex, then
\* maintainScheduleIndex), under the given storage outcomes
LevelAfterRestart(index, files, locks, uid, saved, restarted) ==
    getPersistentLockLevel(begin(saveScheduleIndex(files, index, saved).files, locks,
                                 restarted).index, uid)

DurationBatchOverlapsItself(events) ==
    \E i, j \in 1..Len(events) :
      i # j /\ checkDurationOverlap([DefaultSchedule EXCEPT !.durationEvents = <<events[j]>>],
                                    events[i])

VolumeBatchOverlapsItself(events) ==
    \E i, j \in 1..Len(events) :
      i # j /\ checkVolumeOverlap([DefaultSchedule EXCEPT !.volumeEvents = <<events[j]>>],
                                  events[i])

\* C38: validateAndAddEvents returns false and leaves the schedule unchanged
\* for any batch in which two events of the batch overlap each other, even
\* when neither overlaps an event already in the schedule
C38_BatchCheckedAgainstItself ==
    /\ \A events \in DurationBatches :
         DurationBatchOverlapsItself(events) =>
           LET r == validateAndAddDurationEvents(draft, events)
           IN ~r.ok /\ r.schedule = draft
    /\ \A events \in VolumeBatches :
         VolumeBatchOverlapsItself(events) =>
           LET r == validateAndAddVolumeEvents(draft, events)
           IN ~r.ok /\ r.schedule = draft


\* a DELETE answered 200 leaves no lock on the schedule held by the acting
\* session
DeleteSuccessReleasesLock ==
    \A request \in ApiRequests({"DELETE"}, {NoBody}) :
      \A io \in DeleteIo(request) :
        LET r == handleDeleteSchedule(activeSessions, lockFile, scheduleIndex, scheduleFiles,
                                      request, clock, io)
        IN r.status = 200 =>
             HeldBy(r.file, "schedule_" \o request.uid[1], CookieSessionId(request)) = 0

\* a PUT answered 200 leaves the acting session holding the lock
PutSuccessKeepsLock ==
    \A request \in ApiRequests({"PUT"}, Bodies) :
      \A io \in PutIo(request) :
        LET r == SchedulePostPutRoute(activeSessions, lockFile, scheduleIndex,
                                      scheduleFiles, request, clock, io)
        IN r.status = 200 =>
             HeldBy(r.file, "schedule_" \o request.uid[1], CookieSessionId(request)) = 1

\* C37 - lock retention asymmetry: after a PUT that returns 200 the acting
\* session still holds the edit lock on "schedule_"+uid, whereas after a
\* DELETE that returns 200 the lock set contains no lock on "schedule_"+uid
\* held by the acting session
C37_LockRetentionAsymmetry == PutSuccessKeepsLock /\ DeleteSuccessReleasesLock


\* the body carries a window that is not valid, or two windows that overlap
\* under the rule of checkAutopilotOverlap
BodyFailsValidation(body) ==
    LET windows == MapSeq(body.autopilotWindows, WindowFromJson)
    IN \/ \E i \in 1..Len(windows) : ~AutopilotWindowIsValid(windows[i])
       \/ \E i, j \in 1..Len(windows) :
            i # j /\ checkAutopilotOverlap(
                       [DefaultSchedule EXCEPT !.autopilotWindows = <<windows[j]>>], windows[i])

\* the windows of a stored schedule do not overlap one another
StoredWindowsDisjoint(doc) ==
    \A i, j \in 1..Len(doc.autopilotWindows) :
      i # j => ~SpansIntersect(doc.autopilotWindows[i], doc.autopilotWindows[j])

\* what POST and PUT have written satisfies the overlap rule
StoredSchedulesDisjoint ==
    \A uid \in ScheduleUids(scheduleFiles) :
      scheduleFiles[uid] # << >> => StoredWindowsDisjoint(scheduleFiles[uid][1])

\* C39: a PUT /api/schedule whose body contains an event with invalid data
\* or events that overlap each other does not return 200 and leaves the
\* stored schedule exactly as it was; every schedule file written through
\* POST or PUT satisfies the overlap rules
C39_UpdateNeverPartiallyApplied ==
    /\ \A request \in ApiRequests({"PUT"}, Bodies) :
         \A io \in PutIo(request) :
           LET r == SchedulePostPutRoute(activeSessions, lockFile, scheduleIndex,
                                         scheduleFiles, request, clock, io)
           IN BodyFailsValidation(request.body) =>
                r.status # 200 /\ r.files = scheduleFiles
    /\ StoredSchedulesDisjoint


\* the handler task has returned true from acquireLock
Granted(task) == acq[task].pc = "returned" /\ acq[task].ok

\* C33: if two different sessions call acquireLock for the same unlocked
\* resource concurrently (load, check and save interleaved), at most one of
\* the two calls returns true, and the persisted holder is the session whose
\* call returned true
C33_ExclusiveGrantUnderConcurrency ==
    \A t1, t2 \in HandlerTasks :
      (/\ t1 # t2
       /\ acq[t1].resourceId = acq[t2].resourceId
       /\ acq[t1].sessionId # acq[t2].sessionId)
        => /\ ~(Granted(t1) /\ Granted(t2))
           /\ Granted(t1) /\ acq[t2].pc = "returned" => LockPresent(t1)


\* C34: in every state in which no request handler or sweep is mid-operation,
\* every lock in the persisted lock set is held by a token present in the
\* session table, also after a restart that empties the session table
C34_NoOrphanLocks ==
    \A i \in 1..Len(lockFile) : lockFile[i].sessionId \in DOMAIN activeSessions

\* C31 - no stale turn-off: with a client that submits no TURN_OFF, so that
\* every TURN_OFF is the one a timer task queued at the end of its delay, a
\* channel is ON for as long as a timer task armed for it is still in its
\* delay: the TURN_OFF of an earlier TURN_ON_TIMED never switches the channel
\* off before the duration of the later one is over.
C31_NoStaleTurnOff ==
    \A c \in RelayIndexes(ioConfig) :
      (\E task \in TimersOf(c) : timerTasks[task].pc = "delay") => ChannelOn(c)

\* the client's last command, the plain TURN_ON of DirectRelay_0, was accepted
\* and has been applied, and nothing but timer TURN_OFFs is left in the queue
LastOnApplied ==
    /\ submits = MaxSubmits
    /\ ret.op = "sendCommand" /\ ret.ok
    /\ worker.pc = "receive"
    /\ \A i \in 1..Len(commandQueue) : commandQueue[i].commandType = "TURN_OFF"

\* C32 - plain On is not timed: once the worker has applied the plain TURN_ON
\* of DirectRelay_0 and the client submits nothing after it, the channel
\* stays ON; a timer armed by an earlier TURN_ON_TIMED does not switch it off.
C32_PlainOnNotTimed == LastOnApplied => ChannelOn(0)

\* the sessions cleanupExpiredSessions removes when the loop task goes on from
\* where it stands: the ids left in idsToRemove, or else the ids its first loop
\* collects with the currentTime it has read, or with one it reads now
SweepRemoves ==
    IF sweep.pc \in {"idle", "sessions"}
    THEN cleanupExpiredSessions(activeSessions, lockFile, sessLastCleanupTime,
                                IF sweep.pc = "sessions" THEN sweep.now ELSE clock,
                                [id \in Tokens |-> FsOk]).removed
    ELSE Range(sweep.ids) \cap DOMAIN activeSessions

\* C35 - the sweep never expires a fresh session: a session whose last call
\* was a successful validateSession less than SESSION_TIMEOUT_MS ago is not
\* among the sessions cleanupExpiredSessions removes, also when the sweep had
\* read its currentTime before that validateSession refreshed lastHeartbeat.
C35_SweepSparesFreshSessions ==
    \A id \in DOMAIN activeSessions :
      (/\ ret.op = "validateSession" /\ ret.ok /\ ret.sid = id
       /\ clock - activeSessions[id].lastHeartbeat < SESSION_TIMEOUT_MS)
        => id \notin SweepRemoves

\* a DELETE of request, served in one piece with working storage, removes a
\* schedule file
DeleteRemoves(request) ==
    handleDeleteSchedule(activeSessions, lockFile, scheduleIndex, scheduleFiles,
                         request, clock, IoOk).files # scheduleFiles

\* C36 - delete respects other sessions' locks: a DELETE removes a schedule
\* file only when the lock set holds no lock on that schedule of a session
\* other than the requesting one - when the handler runs in one piece, and
\* when it has passed its isLocked test and is about to call deleteSchedule.
C36_DeleteRespectsLocks ==
    /\ \A request \in ApiRequests({"DELETE"}, {NoBody}) :
         DeleteRemoves(request)
           => ~HeldByOther(lockFile, "schedule_" \o request.uid[1], CookieSessionId(request))
    /\ \A task \in HandlerTasks :
         (/\ acq[task].pc = "checked"
          /\ CheckedUid(task) \in DOMAIN scheduleFiles)
           => ~HeldByOther(lockFile, acq[task].resourceId, acq[task].sessionId)


====
